---- MODULE Spec2Model ----
(***************************************************************************)
(* Dual-write synchronisation of access point records between a relational *)
(* record store (SupabaseOperations / DatabaseOperations) and a vector     *)
(* index (PineconeOperations), coordinated by DataSyncManager.             *)
(*                                                                         *)
(* Modelling conventions                                                   *)
(*  - A JavaScript object is a function from keys to values.  A key is a   *)
(*    sequence of one-character strings, so that the regular expressions   *)
(*    of toSnakeCase / toCamelCase are computed character by character.    *)
(*  - Every value is a string; Null and Undef stand for null / undefined.  *)
(*  - Every await of an adapter method is one atomic step of a caller.     *)
(*    A backend request that fails has no effect on the backend.           *)
(*  - Only the fields id, subnetID and description of AccessPoint are      *)
(*    carried (plus the two timestamps the adapters add); the remaining    *)
(*    fields are copied through the same code paths as description.        *)
(***************************************************************************)
EXTENDS Integers, Sequences, FiniteSets, TLC

VARIABLES
    adapter,    \* which store adapter class the coordinator was built with
    store,      \* table access_points: id -> row (column -> value)
    seen,       \* history: the ids the table has held so far
    index,      \* Pinecone index: id -> vector entry
    now,        \* the clock read by new Date() / NOW()
    pc,         \* per caller: position inside the coordinator method
    op,         \* per caller: the coordinator call in progress and its arguments
    tmp,        \* per caller: local variables of the coordinator method
    ret,        \* per caller: the envelope the call resolved to
    log,        \* per caller: adapter calls issued by the call, with outcome
    pre,        \* per caller: store and index when the call started
    resynced,   \* the last completed call was a successful resync
    checkedOut  \* the clients of the pg pool that are checked out

vars == <<adapter, store, seen, index, now, pc, op, tmp, ret, log, pre, resynced,
         checkedOut>>

(***************************************************************************)
(* Bounds of the model                                                     *)
(***************************************************************************)
MaxBatch == 2
MaxClock == 1

(***************************************************************************)
(* Values                                                                  *)
(***************************************************************************)
Null == "null"
Undef == "undefined"
Ids == {"a", "b"}
Descs == {"d1", "d2"}
SubnetIds == {"s1", "s2"}
Callers == {"c1", "c2"}
Adapters == {"SupabaseOperations", "DatabaseOperations"}

\* new Date().toISOString() at clock value n
Stamp(n) == "t" \o ToString(n)

(***************************************************************************)
(* Characters and keys                                                     *)
(***************************************************************************)
LowerSeq == << "a","b","c","d","e","f","g","h","i","j","k","l","m",
               "n","o","p","q","r","s","t","u","v","w","x","y","z" >>
UpperSeq == << "A","B","C","D","E","F","G","H","I","J","K","L","M",
               "N","O","P","Q","R","S","T","U","V","W","X","Y","Z" >>

IsLower(c) == \E i \in 1..Len(LowerSeq) : LowerSeq[i] = c
IsUpper(c) == \E i \in 1..Len(UpperSeq) : UpperSeq[i] = c

\* String.prototype.toLowerCase / toUpperCase on one character
LowerChar(c) ==
    IF IsUpper(c) THEN LowerSeq[CHOOSE i \in 1..Len(UpperSeq) : UpperSeq[i] = c] ELSE c
UpperChar(c) ==
    IF IsLower(c) THEN UpperSeq[CHOOSE i \in 1..Len(LowerSeq) : LowerSeq[i] = c] ELSE c

toLowerCase(s) == [i \in 1..Len(s) |-> LowerChar(s[i])]

\* key.replace(/([a-z])([A-Z])/g, '$1_$2'): scan from position i, matches do
\* not overlap
RECURSIVE ReplaceLowerUpper(_, _)
ReplaceLowerUpper(s, i) ==
    IF i > Len(s) THEN << >>
    ELSE IF i < Len(s) /\ IsLower(s[i]) /\ IsUpper(s[i+1])
         THEN << s[i], "_", s[i+1] >> \o ReplaceLowerUpper(s, i + 2)
         ELSE << s[i] >> \o ReplaceLowerUpper(s, i + 1)

\* key.replace(/([A-Z])([A-Z][a-z])/g, '$1_$2')
RECURSIVE ReplaceUpperRun(_, _)
ReplaceUpperRun(s, i) ==
    IF i > Len(s) THEN << >>
    ELSE IF i + 1 < Len(s) /\ IsUpper(s[i]) /\ IsUpper(s[i+1]) /\ IsLower(s[i+2])
         THEN << s[i], "_", s[i+1], s[i+2] >> \o ReplaceUpperRun(s, i + 3)
         ELSE << s[i] >> \o ReplaceUpperRun(s, i + 1)

\* key.replace(/^_/, '')
StripLeadingUnderscore(s) ==
    IF Len(s) > 0 /\ s[1] = "_" THEN SubSeq(s, 2, Len(s)) ELSE s

\* the key toSnakeCase gives a field whose value is not null / undefined
SnakeKey(key) ==
    StripLeadingUnderscore(
        toLowerCase(ReplaceUpperRun(ReplaceLowerUpper(key, 1), 1)))

\* key.replace(/_([a-z])/g, (g) => g[1].toUpperCase())
RECURSIVE ReplaceUnderscoreLower(_, _)
ReplaceUnderscoreLower(s, i) ==
    IF i > Len(s) THEN << >>
    ELSE IF i < Len(s) /\ s[i] = "_" /\ IsLower(s[i+1])
         THEN << UpperChar(s[i+1]) >> \o ReplaceUnderscoreLower(s, i + 2)
         ELSE << s[i] >> \o ReplaceUnderscoreLower(s, i + 1)

CamelKey(key) == ReplaceUnderscoreLower(key, 1)

\* Field names of AccessPoint (types.ts) carried by the model
kId == << "i","d" >>
kSubnetID == << "s","u","b","n","e","t","I","D" >>
kDescription == << "d","e","s","c","r","i","p","t","i","o","n" >>

\* Columns of table access_points (supabase-schema.sql) carried by the model
cId == << "i","d" >>
cSubnetId == << "s","u","b","n","e","t","_","i","d" >>
cDescription == << "d","e","s","c","r","i","p","t","i","o","n" >>
cCreatedAt == << "c","r","e","a","t","e","d","_","a","t" >>
cUpdatedAt == << "u","p","d","a","t","e","d","_","a","t" >>

Columns == {cId, cSubnetId, cDescription, cCreatedAt, cUpdatedAt}
NotNullColumns == {cId, cSubnetId, cDescription}

\* The keys that occur in the objects of the model, and the conversions of
\* each, computed once
KnownKeys ==
    LET given == {kId, kSubnetID, kDescription} \cup Columns
    IN given \cup {SnakeKey(k) : k \in given} \cup {toLowerCase(k) : k \in given}
             \cup {CamelKey(k) : k \in given}
SnakeKeys == [k \in KnownKeys |-> SnakeKey(k)]
LowerKeys == [k \in KnownKeys |-> toLowerCase(k)]
CamelKeys == [k \in KnownKeys |-> CamelKey(k)]

(***************************************************************************)
(* Objects                                                                 *)
(***************************************************************************)
\* obj[key] of JavaScript: undefined when the object has no such property
Prop(obj, key) == IF key \in DOMAIN obj THEN obj[key] ELSE Undef

\* obj1 with the properties of obj2 written over it: {...obj1, ...obj2}
Spread(obj1, obj2) ==
    [k \in DOMAIN obj1 \cup DOMAIN obj2 |->
        IF k \in DOMAIN obj2 THEN obj2[k] ELSE obj1[k]]

\* the key toSnakeCase writes for property key of obj
SnakeKeyOf(obj, key) ==
    IF obj[key] = Null \/ obj[key] = Undef THEN LowerKeys[key] ELSE SnakeKeys[key]

toSnakeCase(obj) ==
    [sk \in {SnakeKeyOf(obj, k) : k \in DOMAIN obj} |->
        obj[CHOOSE k \in DOMAIN obj : SnakeKeyOf(obj, k) = sk]]

toCamelCase(obj) ==
    [ck \in {CamelKeys[k] : k \in DOMAIN obj} |->
        obj[CHOOSE k \in DOMAIN obj : CamelKeys[k] = ck]]

AccessPoint(id, sid, d) ==
    (kId :> id) @@ (kSubnetID :> sid) @@ (kDescription :> d)

Timestamps(t) == (cCreatedAt :> t) @@ (cUpdatedAt :> t)

(***************************************************************************)
(* Result envelopes (APIResponse<T>)                                       *)
(***************************************************************************)
Ok(data) == [data |-> data, success |-> TRUE]
OkVoid == [success |-> TRUE]
Fail(error) == [success |-> FALSE, error |-> error]
\* a promise that rejects instead of resolving to an envelope
Rejected(error) == [success |-> FALSE, error |-> error, rejected |-> TRUE]
IsRejected(r) == "rejected" \in DOMAIN r

(***************************************************************************)
(* Table access_points: the SQL statements the adapters issue              *)
(***************************************************************************)
\* a statement writing data is refused: unknown column, or NULL in a
\* NOT NULL column
ViolatesSchema(data) ==
    \/ ~(DOMAIN data \subseteq Columns)
    \/ \E c \in NotNullColumns \cap DOMAIN data : data[c] = Null \/ data[c] = Undef

\* INSERT INTO access_points (...) VALUES (...) RETURNING *
SqlInsert(s, data) ==
    IF \/ ViolatesSchema(data)
       \/ ~(NotNullColumns \subseteq DOMAIN data)
       \/ data[cId] \in DOMAIN s
    THEN [store |-> s, ok |-> FALSE, rows |-> << >>]
    ELSE LET row == [c \in Columns |-> Prop(data, c)]
         IN [store |-> (data[cId] :> row) @@ s, ok |-> TRUE, rows |-> << row >>]

\* UPDATE access_points SET ... WHERE id = $n RETURNING *, with the trigger
\* update_access_points_updated_at (updated_at = NOW() before every update)
SqlUpdate(s, id, data, t) ==
    IF ViolatesSchema(data)
    THEN [store |-> s, ok |-> FALSE, rows |-> << >>]
    ELSE IF id \notin DOMAIN s
    THEN [store |-> s, ok |-> TRUE, rows |-> << >>]
    ELSE LET row == [c \in Columns |->
                        IF c = cUpdatedAt THEN t
                        ELSE IF c \in DOMAIN data THEN data[c] ELSE s[id][c]]
         IN [store |-> [s EXCEPT ![id] = row], ok |-> TRUE, rows |-> << row >>]

\* DELETE FROM access_points WHERE id = $1
SqlDelete(s, id) ==
    [store |-> [i \in DOMAIN s \ {id} |-> s[i]],
     rowCount |-> IF id \in DOMAIN s THEN 1 ELSE 0]

\* one row of INSERT ... ON CONFLICT (id) DO UPDATE SET col = EXCLUDED.col
UpsertRow(s, data, t) ==
    IF data[cId] \in DOMAIN s
    THEN [s EXCEPT ![data[cId]] =
            [c \in Columns |->
                IF c = cUpdatedAt THEN t
                ELSE IF c \in DOMAIN data THEN data[c] ELSE s[data[cId]][c]]]
    ELSE (data[cId] :> [c \in Columns |-> Prop(data, c)]) @@ s

\* Faulty variant of UpsertRows: the loop stops one row short
RECURSIVE UpsertRowsSkipLast(_, _, _)
UpsertRowsSkipLast(s, rows, t) ==
    IF Len(rows) <= 1 THEN s
    ELSE UpsertRowsSkipLast(UpsertRow(s, Head(rows), t), Tail(rows), t)

RECURSIVE UpsertRows(_, _, _)
UpsertRows(s, rows, t) ==
    IF rows = << >> THEN s
    ELSE UpsertRows(UpsertRow(s, Head(rows), t), Tail(rows), t)

\* INSERT ... VALUES (...), (...) ON CONFLICT (id) DO UPDATE: one statement.
\* It is refused as a whole when a row violates the schema, when two rows
\* carry the same id ("cannot affect row a second time") or when the rows do
\* not all carry the columns of the first row.
SqlUpsert(s, rows, t) ==
    IF \/ \E i \in 1..Len(rows) :
            \/ ViolatesSchema(rows[i])
            \/ ~(NotNullColumns \subseteq DOMAIN rows[i])
            \/ DOMAIN rows[i] # DOMAIN rows[1]
       \/ \E i, j \in 1..Len(rows) : i # j /\ rows[i][cId] = rows[j][cId]
    THEN [store |-> s, ok |-> FALSE]
    ELSE [store |-> UpsertRows(s, rows, t), ok |-> TRUE]

\* created_at values in SELECT ... ORDER BY created_at DESC
TimeOf(t) == CHOOSE n \in 0..(MaxClock + 1) : Stamp(n) = t

\* the orders SELECT * ... ORDER BY created_at DESC may return the rows in
SelectAllOrders(s) ==
    { q \in [1..Cardinality(DOMAIN s) -> DOMAIN s] :
        /\ \A i, j \in DOMAIN q : i # j => q[i] # q[j]
        /\ \A i, j \in DOMAIN q :
              i < j => TimeOf(s[q[i]][cCreatedAt]) >= TimeOf(s[q[j]][cCreatedAt]) }

(***************************************************************************)
(* SupabaseOperations: one PostgREST request per method.  ok says whether  *)
(* the request reached the table (no transport / permission error).  Each  *)
(* method yields the table after the call and the envelope it resolves to. *)
(***************************************************************************)
SupabaseCreateAccessPoint(s, accessPoint, t, ok) ==
    LET dataToInsert == Spread(toSnakeCase(accessPoint), Timestamps(t))
        r == SqlInsert(s, dataToInsert)
    IN IF ok /\ r.ok
       THEN [store |-> r.store, res |-> Ok(toCamelCase(r.rows[1]))]
       ELSE [store |-> s, res |-> Fail("Failed to create access point")]

\* .update(...).eq('id', id).select().single(): no row is an error of single()
SupabaseUpdateAccessPoint(s, id, updates, t, ok) ==
    LET dataToUpdate == Spread(toSnakeCase(updates), (cUpdatedAt :> t))
        r == SqlUpdate(s, id, dataToUpdate, t)
    IN IF ok /\ r.ok /\ Len(r.rows) = 1
       THEN [store |-> r.store, res |-> Ok(toCamelCase(r.rows[1]))]
       ELSE [store |-> s, res |-> Fail("Failed to update access point")]

SupabaseGetAccessPoint(s, id, ok) ==
    IF ~ok THEN Fail("Failed to get access point")
    ELSE IF id \notin DOMAIN s THEN Fail("Access point not found")
    ELSE Ok(toCamelCase(s[id]))

\* order is one of SelectAllOrders(s)
SupabaseGetAllAccessPoints(s, order, ok) ==
    IF ok THEN Ok([i \in DOMAIN order |-> toCamelCase(s[order[i]])])
    ELSE Fail("Failed to get all access points")

\* .delete().eq('id', id): deleting no row is no error
SupabaseDeleteAccessPoint(s, id, ok) ==
    IF ok THEN [store |-> SqlDelete(s, id).store, res |-> OkVoid]
    ELSE [store |-> s, res |-> Fail("Failed to delete access point")]

\* .upsert(dataToInsert, { onConflict: 'id' }): one statement
SupabaseBulkInsertAccessPoints(s, accessPoints, t, ok) ==
    LET dataToInsert == [i \in DOMAIN accessPoints |->
                            Spread(toSnakeCase(accessPoints[i]), Timestamps(t))]
        r == SqlUpsert(s, dataToInsert, t)
    IN IF ok /\ r.ok
       THEN [store |-> r.store, res |-> OkVoid]
       ELSE [store |-> s, res |-> Fail("Failed to bulk insert access points")]

(***************************************************************************)
(* DatabaseOperations: a pooled pg client per method.  ok says whether     *)
(* pool.connect() and the query both went through.                         *)
(***************************************************************************)
DatabaseCreateAccessPoint(s, accessPoint, t, ok) ==
    LET dataToInsert == Spread(toSnakeCase(accessPoint), Timestamps(t))
        r == SqlInsert(s, dataToInsert)
    IN IF ok /\ r.ok
       THEN [store |-> r.store, res |-> Ok(toCamelCase(r.rows[1]))]
       ELSE [store |-> s, res |-> Fail("Failed to create access point")]

DatabaseUpdateAccessPoint(s, id, updates, t, ok) ==
    LET dataToUpdate == Spread(toSnakeCase(updates), (cUpdatedAt :> t))
        r == SqlUpdate(s, id, dataToUpdate, t)
    IN IF ~(ok /\ r.ok)
       THEN [store |-> s, res |-> Fail("Failed to update access point")]
       ELSE IF Len(r.rows) = 0
       THEN [store |-> s, res |-> Fail("Access point not found")]
       ELSE [store |-> r.store, res |-> Ok(toCamelCase(r.rows[1]))]

DatabaseGetAccessPoint(s, id, ok) ==
    IF ~ok THEN Fail("Failed to get access point")
    ELSE IF id \notin DOMAIN s THEN Fail("Access point not found")
    ELSE Ok(toCamelCase(s[id]))

DatabaseGetAllAccessPoints(s, order, ok) ==
    IF ok THEN Ok([i \in DOMAIN order |-> toCamelCase(s[order[i]])])
    ELSE Fail("Failed to get all access points")

\* result.rowCount === 0 is reported as not found
DatabaseDeleteAccessPoint(s, id, ok) ==
    LET r == SqlDelete(s, id)
    IN IF ~ok THEN [store |-> s, res |-> Fail("Failed to delete access point")]
       ELSE IF r.rowCount = 0 THEN [store |-> s, res |-> Fail("Access point not found")]
       ELSE [store |-> r.store, res |-> OkVoid]

\* The statements of the transaction, in the order they are awaited
TxFailures == {"none", "connect", "BEGIN", "INSERT", "COMMIT"}

\* Faulty variant of DatabaseCommitted: the rows are written outside the
\* transaction, so they stay when COMMIT fails
DatabaseCommittedAutocommit(s, written, failAt) ==
    IF failAt \in {"none", "COMMIT"} THEN written ELSE s

\* what COMMIT makes durable: the rows written since BEGIN, and only when
\* every statement up to and including COMMIT went through
DatabaseCommitted(s, written, failAt) ==
    IF failAt = "none" THEN written ELSE s

\* connect, BEGIN, INSERT ... ON CONFLICT (skipped for an empty batch), COMMIT;
\* failAt is the first statement that throws.  The catch block awaits ROLLBACK
\* when a client was acquired; a ROLLBACK that throws leaves the catch block,
\* so the promise rejects.
DatabaseBulkInsertAccessPoints(s, accessPoints, t, failAt, rollbackOk) ==
    LET dataToInsert == [i \in DOMAIN accessPoints |->
                            Spread(toSnakeCase(accessPoints[i]), Timestamps(t))]
        r == IF Len(dataToInsert) > 0 THEN SqlUpsert(s, dataToInsert, t)
             ELSE [store |-> s, ok |-> TRUE]
        thrown == IF failAt = "none" /\ ~r.ok THEN "INSERT"
                  ELSE IF failAt = "INSERT" /\ Len(dataToInsert) = 0 THEN "none"
                  ELSE failAt
    IN IF thrown = "none"
       THEN [store |-> DatabaseCommitted(s, r.store, thrown), res |-> OkVoid]
       ELSE IF thrown # "connect" /\ ~rollbackOk
       THEN [store |-> DatabaseCommitted(s, r.store, thrown),
             res |-> Rejected("ROLLBACK failed")]
       ELSE [store |-> DatabaseCommitted(s, r.store, thrown),
             res |-> Fail("Failed to bulk insert access points")]

(***************************************************************************)
(* PineconeOperations                                                      *)
(***************************************************************************)
chunkSize == 100

\* The text generateEmbedding hashes.  The vector is a function of this text
\* alone, so the entry keeps the text in place of the 1024 numbers.
generateEmbedding(accessPoint) ==
    << Prop(accessPoint, kId), Prop(accessPoint, kSubnetID),
       Prop(accessPoint, kDescription) >>

VectorData(accessPoint) ==
    [id |-> Prop(accessPoint, kId),
     values |-> generateEmbedding(accessPoint),
     metadata |-> [id |-> Prop(accessPoint, kId),
                   subnetID |-> Prop(accessPoint, kSubnetID),
                   description |-> Prop(accessPoint, kDescription)]]

\* Faulty variant of IndexUpsert: a vector whose id the index already holds
\* removes the entry instead of overwriting it
RECURSIVE IndexUpsertToggle(_, _)
IndexUpsertToggle(idx, vectors) ==
    IF vectors = << >> THEN idx
    ELSE IF Head(vectors).id \in DOMAIN idx
    THEN IndexUpsertToggle([i \in DOMAIN idx \ {Head(vectors).id} |-> idx[i]],
                           Tail(vectors))
    ELSE IndexUpsertToggle((Head(vectors).id :> Head(vectors)) @@ idx, Tail(vectors))

\* index.upsert(vectors): one request, every vector overwrites the entry of
\* its id, the later of two vectors with one id wins
IndexUpsert(idx, vectors) ==
    [i \in DOMAIN idx \cup { vectors[k].id : k \in DOMAIN vectors } |->
        LET at == { k \in DOMAIN vectors : vectors[k].id = i }
        IN  IF at = {} THEN idx[i]
            ELSE vectors[CHOOSE k \in at : \A m \in at : m <= k]]

\* index.deleteOne(id): an id the index does not hold is no error
IndexDeleteOne(idx, id) == [i \in DOMAIN idx \ {id} |-> idx[i]]

PineconeUpsertAccessPoint(idx, accessPoint, ok) ==
    IF ok THEN [index |-> IndexUpsert(idx, << VectorData(accessPoint) >>), res |-> OkVoid]
    ELSE [index |-> idx, res |-> Fail("Failed to upsert to Pinecone")]

PineconeUpdateAccessPoint(idx, accessPoint, ok) ==
    PineconeUpsertAccessPoint(idx, accessPoint, ok)

PineconeDeleteAccessPoint(idx, id, ok) ==
    IF ok THEN [index |-> IndexDeleteOne(idx, id), res |-> OkVoid]
    ELSE [index |-> idx, res |-> Fail("Failed to delete from Pinecone")]

\* the chunks of the loop for (i = 0; i < length; i += chunkSize)
NumChunks(n) == (n + chunkSize - 1) \div chunkSize
Chunk(vectorsData, k) ==
    SubSeq(vectorsData, (k - 1) * chunkSize + 1,
           IF k * chunkSize < Len(vectorsData) THEN k * chunkSize ELSE Len(vectorsData))

\* the index after the first n chunks were upserted, one request each
RECURSIVE UpsertChunks(_, _, _)
UpsertChunks(idx, vectorsData, n) ==
    IF n = 0 THEN idx
    ELSE IndexUpsert(UpsertChunks(idx, vectorsData, n - 1), Chunk(vectorsData, n))

\* Faulty variant of PineconeBulkUpsertAccessPoints: the chunk whose request
\* failed is written all the same
PineconeBulkUpsertThroughFailure(idx, accessPoints, failAt) ==
    LET vectorsData == [i \in DOMAIN accessPoints |-> VectorData(accessPoints[i])]
    IN IF failAt = 0
       THEN [index |-> UpsertChunks(idx, vectorsData, NumChunks(Len(vectorsData))),
             res |-> OkVoid]
       ELSE [index |-> UpsertChunks(idx, vectorsData, failAt),
             res |-> Fail("Failed to bulk upsert to Pinecone")]

\* failAt = 0: every request goes through; failAt = k: the request of chunk k
\* throws and the loop is left
PineconeBulkUpsertAccessPoints(idx, accessPoints, failAt) ==
    LET vectorsData == [i \in DOMAIN accessPoints |-> VectorData(accessPoints[i])]
    IN IF failAt = 0
       THEN [index |-> UpsertChunks(idx, vectorsData, NumChunks(Len(vectorsData))),
             res |-> OkVoid]
       ELSE [index |-> UpsertChunks(idx, vectorsData, failAt - 1),
             res |-> Fail("Failed to bulk upsert to Pinecone")]

(***************************************************************************)
(* The store adapter the coordinator holds in this.supabaseOps             *)
(***************************************************************************)
StoreCreate(a, s, accessPoint, t, ok) ==
    IF a = "SupabaseOperations" THEN SupabaseCreateAccessPoint(s, accessPoint, t, ok)
    ELSE DatabaseCreateAccessPoint(s, accessPoint, t, ok)

StoreUpdate(a, s, id, updates, t, ok) ==
    IF a = "SupabaseOperations" THEN SupabaseUpdateAccessPoint(s, id, updates, t, ok)
    ELSE DatabaseUpdateAccessPoint(s, id, updates, t, ok)

StoreGet(a, s, id, ok) ==
    IF a = "SupabaseOperations" THEN SupabaseGetAccessPoint(s, id, ok)
    ELSE DatabaseGetAccessPoint(s, id, ok)

StoreGetAll(a, s, order, ok) ==
    IF a = "SupabaseOperations" THEN SupabaseGetAllAccessPoints(s, order, ok)
    ELSE DatabaseGetAllAccessPoints(s, order, ok)

StoreDelete(a, s, id, ok) ==
    IF a = "SupabaseOperations" THEN SupabaseDeleteAccessPoint(s, id, ok)
    ELSE DatabaseDeleteAccessPoint(s, id, ok)

\* where a bulk insert can fail: the one request of SupabaseOperations, or a
\* statement of the transaction of DatabaseOperations and then its ROLLBACK
BulkFailures(a) ==
    IF a = "SupabaseOperations" THEN {"none", "INSERT"} ELSE TxFailures
BulkRollbacks(a) ==
    IF a = "SupabaseOperations" THEN {TRUE} ELSE BOOLEAN

StoreBulkInsert(a, s, accessPoints, t, failAt, rollbackOk) ==
    IF a = "SupabaseOperations"
    THEN SupabaseBulkInsertAccessPoints(s, accessPoints, t, failAt = "none")
    ELSE DatabaseBulkInsertAccessPoints(s, accessPoints, t, failAt, rollbackOk)


(***************************************************************************)
(* Text search of the store adapters and similarity query of the index     *)
(***************************************************************************)
\* Columns the search statements name that the model does not carry
cName == << "n","a","m","e" >>
cLocation == << "l","o","c","a","t","i","o","n" >>
cSubnetName == << "s","u","b","n","e","t","_","n","a","m","e" >>
cRelevanceScore == << "r","e","l","e","v","a","n","c","e","_","s","c","o","r","e" >>

\* the columns of table access_points
TableColumns ==
    { << "i","d" >>,
      << "s","u","b","n","e","t","_","i","d" >>,
      << "s","u","b","n","e","t","_","n","a","m","e" >>,
      << "d","e","s","c","r","i","p","t","i","o","n" >>,
      << "i","n","p","u","t" >>,
      << "o","u","t","p","u","t" >>,
      << "i","n","p","u","t","_","t","y","p","e" >>,
      << "o","u","t","p","u","t","_","t","y","p","e" >>,
      << "c","a","p","a","b","i","l","i","t","i","e","s" >>,
      << "t","a","g","s" >>,
      << "p","r","o","m","p","t","_","e","x","a","m","p","l","e" >>,
      << "f","i","l","e","_","u","p","l","o","a","d" >>,
      << "f","i","l","e","_","d","o","w","n","l","o","a","d" >>,
      << "s","u","b","n","e","t","_","u","r","l" >>,
      << "c","r","e","a","t","e","d","_","a","t" >>,
      << "u","p","d","a","t","e","d","_","a","t" >> }

\* the columns of the rows search_access_points(search_query) returns
SearchFunctionColumns == {cId, cSubnetName, cDescription, cRelevanceScore}

\* description ILIKE '%query%' / to_tsvector(...) @@ plainto_tsquery(query),
\* on descriptions of one word
TextMatches(row, query) == row[cDescription] = query

\* the rows of s with an id in ids
RestrictRows(s, ids) == [i \in DOMAIN s \cap ids |-> s[i]]

\* SELECT * FROM access_points WHERE to_tsvector(... name ... description ...
\* location ...) @@ ... OR name ILIKE $2 OR description ILIKE $2 OR location
\* ILIKE $2 ORDER BY created_at DESC: refused when it names a column the
\* table does not have
DatabaseSearchAccessPoints(s, query, order, ok) ==
    IF ok /\ {cName, cDescription, cLocation, cCreatedAt} \subseteq TableColumns
    THEN Ok([i \in DOMAIN order |-> toCamelCase(s[order[i]])])
    ELSE Fail("Failed to search access points")

\* .rpc('search_access_points', { search_query }).order('created_at'): refused
\* when the rows of the function have no column created_at
SupabaseSearchAccessPoints(s, query, order, ok) ==
    IF ok /\ cCreatedAt \in SearchFunctionColumns
    THEN Ok([i \in DOMAIN order |->
                toCamelCase([c \in SearchFunctionColumns \cap Columns |-> s[order[i]][c]])])
    ELSE Fail("Failed to search access points")

\* order is one of SelectAllOrders of the rows that match query
StoreSearch(a, s, query, order, ok) ==
    IF a = "SupabaseOperations" THEN SupabaseSearchAccessPoints(s, query, order, ok)
    ELSE DatabaseSearchAccessPoints(s, query, order, ok)

MatchingRows(s, query) ==
    RestrictRows(s, { i \in DOMAIN s : TextMatches(s[i], query) })

\* Faulty variant of Rankings: the query ignores topK and returns every entry
RankingsAll(idx, topK) ==
    LET n == Cardinality(DOMAIN idx)
    IN { q \in [1..n -> DOMAIN idx] : \A i, j \in 1..n : i # j => q[i] # q[j] }

\* index.query({ vector, topK }): the topK entries nearest to the vector, or
\* all entries when the index holds fewer.  Which entries are nearest, and in
\* which order, is left open: every ranking is allowed.
Rankings(idx, topK) ==
    LET n == IF Cardinality(DOMAIN idx) < topK THEN Cardinality(DOMAIN idx) ELSE topK
    IN { q \in [1..n -> DOMAIN idx] : \A i, j \in 1..n : i # j => q[i] # q[j] }

\* the query record searchSimilar embeds: { id: 'query', subnetID: '',
\* description: query, ... }
QueryAccessPoint(query) == AccessPoint("query", "", query)

\* Faulty variant of PineconeSearchSimilar: the answer carries no match
PineconeSearchSimilarNoMatch(idx, query, topK, ranking, ok) ==
    IF ok THEN Ok(<< >>) ELSE Fail("Failed to search Pinecone")

\* ranking is one of Rankings(idx, topK)
PineconeSearchSimilar(idx, query, topK, ranking, ok) ==
    LET queryEmbedding == generateEmbedding(QueryAccessPoint(query))
    IN IF ok
       THEN Ok([i \in DOMAIN ranking |->
                   [id |-> ranking[i], metadata |-> idx[ranking[i]].metadata]])
       ELSE Fail("Failed to search Pinecone")

(***************************************************************************)
(* Inputs of the coordinator calls                                         *)
(***************************************************************************)
\* records a caller may pass: a null description violates NOT NULL
InputRecords == { AccessPoint(i, "s1", d) : i \in Ids, d \in Descs \cup {Null} }

\* Partial<AccessPoint> objects a caller may pass to update
InputUpdates ==
    { (kDescription :> d) : d \in Descs \cup {Null} } \cup
    { (kSubnetID :> x) : x \in SubnetIds }

\* batches a caller may pass to bulkSync: any id, a valid or a null description
BatchRecords == { AccessPoint(i, "s1", d) : i \in Ids, d \in {"d1", Null} }
InputBatches == UNION { [1..n -> BatchRecords] : n \in 0..MaxBatch }

EmptyMap == [i \in {} |-> Null]
NoOp == [name |-> "none"]
NoTmp == [none |-> TRUE]
NoRet == [none |-> TRUE]
NoPre == [none |-> TRUE]

\* one adapter call issued by a coordinator method, how it resolved, and the
\* backend request of it that failed ("none": every request went through)
Entry(call, res, fault) == [ok |-> res.success, call |-> call, fault |-> fault]
Fault(ok) == IF ok THEN "none" ELSE "request"

(***************************************************************************)
(* DataSyncManager                                                         *)
(***************************************************************************)
Init ==
    /\ adapter \in Adapters
    /\ checkedOut = 0
    /\ store = EmptyMap
    /\ seen = {}
    /\ index = EmptyMap
    /\ now = 1
    /\ pc = [p \in Callers |-> "idle"]
    /\ op = [p \in Callers |-> NoOp]
    /\ tmp = [p \in Callers |-> NoTmp]
    /\ ret = [p \in Callers |-> NoRet]
    /\ log = [p \in Callers |-> << >>]
    /\ pre = [p \in Callers |-> NoPre]
    /\ resynced = FALSE

\* a caller invokes a coordinator method: the method runs up to its first await
Invoke(p, call, first, locals) ==
    /\ pc[p] = "idle"
    /\ pc' = [pc EXCEPT ![p] = first]
    /\ op' = [op EXCEPT ![p] = call]
    /\ pre' = [pre EXCEPT ![p] = [store |-> store, index |-> index, resynced |-> resynced]]
    /\ log' = [log EXCEPT ![p] = << >>]
    /\ tmp' = [tmp EXCEPT ![p] = locals]
    /\ resynced' = (resynced /\ call.name = "resync")
    /\ UNCHANGED <<adapter, checkedOut, store, seen, index, now, ret>>

\* the method resolves to envelope r
Resolve(p, r) ==
    /\ pc' = [pc EXCEPT ![p] = "done"]
    /\ ret' = [ret EXCEPT ![p] = r]
    /\ tmp' = [tmp EXCEPT ![p] = NoTmp]
    /\ resynced' = (op[p].name = "resync" /\ r.success)

\* the method goes on to its next await with locals t
Continue(p, next, t) ==
    /\ pc' = [pc EXCEPT ![p] = next]
    /\ tmp' = [tmp EXCEPT ![p] = t]
    /\ UNCHANGED <<ret, resynced>>

Logged(p, call, res, fault) ==
    log' = [log EXCEPT ![p] = Append(@, Entry(call, res, fault))]

\* the index query of a search, with the ids of its matches in their order
LoggedQuery(p, res, fault) ==
    log' = [log EXCEPT ![p] = Append(@,
                [ok |-> res.success,
                 ids |-> IF res.success
                         THEN [i \in DOMAIN res.data |-> res.data[i].id]
                         ELSE << >>,
                 call |-> "index.query", fault |-> fault])]

\* the caller takes the result; the call's record is dropped
Return(p) ==
    /\ pc[p] = "done"
    /\ pc' = [pc EXCEPT ![p] = "idle"]
    /\ op' = [op EXCEPT ![p] = NoOp]
    /\ ret' = [ret EXCEPT ![p] = NoRet]
    /\ log' = [log EXCEPT ![p] = << >>]
    /\ pre' = [pre EXCEPT ![p] = NoPre]
    /\ UNCHANGED <<adapter, checkedOut, store, seen, index, now, tmp, resynced>>

---------------------------------------------------------------------------
\* createAccessPoint(accessPoint)
StartCreate(p) ==
    \E accessPoint \in InputRecords :
        Invoke(p, [accessPoint |-> accessPoint, name |-> "create"], "create.store", NoTmp)

\* Faulty variant of CreateStore: the index upsert is issued whatever the
\* store answered
CreateStoreUnchecked(p) ==
    /\ pc[p] = "create.store"
    /\ \E ok \in BOOLEAN :
        LET r == StoreCreate(adapter, store, op[p].accessPoint, Stamp(now), ok)
        IN /\ store' = r.store
           /\ Logged(p, "store.create", r.res, Fault(ok))
           /\ Continue(p, "create.index", [supabaseResult |-> r.res])
    /\ seen' = seen \cup DOMAIN store'
    /\ UNCHANGED <<adapter, checkedOut, index, now, op, pre>>

\* await this.supabaseOps.createAccessPoint(accessPoint)
CreateStore(p) ==
    /\ pc[p] = "create.store"
    /\ \E ok \in BOOLEAN :
        LET r == StoreCreate(adapter, store, op[p].accessPoint, Stamp(now), ok)
        IN /\ store' = r.store
           /\ Logged(p, "store.create", r.res, Fault(ok))
           /\ IF ~r.res.success
              THEN Resolve(p, r.res)
              ELSE Continue(p, "create.index", [supabaseResult |-> r.res])
    /\ seen' = seen \cup DOMAIN store'
    /\ UNCHANGED <<adapter, checkedOut, index, now, op, pre>>

\* await this.pineconeOps.upsertAccessPoint(accessPoint)
CreateIndex(p) ==
    /\ pc[p] = "create.index"
    /\ \E ok \in BOOLEAN :
        LET r == PineconeUpsertAccessPoint(index, op[p].accessPoint, ok)
        IN /\ index' = r.index
           /\ Logged(p, "index.upsert", r.res, Fault(ok))
           /\ IF ~r.res.success
              THEN Continue(p, "create.rollback", tmp[p])
              ELSE Resolve(p, tmp[p].supabaseResult)
    /\ UNCHANGED <<adapter, checkedOut, store, seen, now, op, pre>>

\* Faulty variant of CreateRollback: a compensating delete that failed is
\* issued again, twice at most
CreateRollbackRetry(p) ==
    /\ pc[p] = "create.rollback"
    /\ \E ok \in BOOLEAN :
        LET r == StoreDelete(adapter, store, Prop(op[p].accessPoint, kId), ok)
        IN /\ store' = r.store
           /\ Logged(p, "store.delete", r.res, Fault(ok))
           /\ IF ~r.res.success /\ Len(log[p]) < 4
              THEN Continue(p, "create.rollback", tmp[p])
              ELSE Resolve(p, Fail("Failed to sync to Pinecone, rolled back Supabase"))
    /\ seen' = seen \cup DOMAIN store'
    /\ UNCHANGED <<adapter, checkedOut, index, now, op, pre>>

\* await this.supabaseOps.deleteAccessPoint(accessPoint.id): result not read
CreateRollback(p) ==
    /\ pc[p] = "create.rollback"
    /\ \E ok \in BOOLEAN :
        LET r == StoreDelete(adapter, store, Prop(op[p].accessPoint, kId), ok)
        IN /\ store' = r.store
           /\ Logged(p, "store.delete", r.res, Fault(ok))
           /\ Resolve(p, Fail("Failed to sync to Pinecone, rolled back Supabase"))
    /\ seen' = seen \cup DOMAIN store'
    /\ UNCHANGED <<adapter, checkedOut, index, now, op, pre>>

---------------------------------------------------------------------------
\* updateAccessPoint(id, updates)
StartUpdate(p) ==
    \E id \in Ids, updates \in InputUpdates :
        Invoke(p, [id |-> id, updates |-> updates, name |-> "update"], "update.store", NoTmp)

\* Faulty variant of UpdateStore: when the store refused the update the index
\* is fed the input all the same
UpdateStoreOptimistic(p) ==
    /\ pc[p] = "update.store"
    /\ \E ok \in BOOLEAN :
        LET r == StoreUpdate(adapter, store, op[p].id, op[p].updates, Stamp(now), ok)
        IN /\ store' = r.store
           /\ Logged(p, "store.update", r.res, Fault(ok))
           /\ IF ~r.res.success
              THEN Continue(p, "update.index",
                       [supabaseResult |-> Ok(Spread((kId :> op[p].id), op[p].updates))])
              ELSE Continue(p, "update.index", [supabaseResult |-> r.res])
    /\ seen' = seen \cup DOMAIN store'
    /\ UNCHANGED <<adapter, checkedOut, index, now, op, pre>>

\* await this.supabaseOps.updateAccessPoint(id, updates)
UpdateStore(p) ==
    /\ pc[p] = "update.store"
    /\ \E ok \in BOOLEAN :
        LET r == StoreUpdate(adapter, store, op[p].id, op[p].updates, Stamp(now), ok)
        IN /\ store' = r.store
           /\ Logged(p, "store.update", r.res, Fault(ok))
           /\ IF ~r.res.success
              THEN Resolve(p, r.res)
              ELSE Continue(p, "update.index", [supabaseResult |-> r.res])
    /\ seen' = seen \cup DOMAIN store'
    /\ UNCHANGED <<adapter, checkedOut, index, now, op, pre>>

\* Faulty variant of UpdateIndex: a failed index update undoes the store
\* update, as create does
UpdateIndexCompensating(p) ==
    /\ pc[p] = "update.index"
    /\ \E ok \in BOOLEAN :
        LET fullAccessPoint == tmp[p].supabaseResult.data
            r == PineconeUpdateAccessPoint(index, fullAccessPoint, ok)
        IN /\ index' = r.index
           /\ store' = IF r.res.success THEN store ELSE pre[p].store
           /\ Logged(p, "index.upsert", r.res, Fault(ok))
           /\ IF ~r.res.success
              THEN Resolve(p, Fail("Failed to sync to Pinecone, rolled back Supabase"))
              ELSE Resolve(p, tmp[p].supabaseResult)
    /\ seen' = seen \cup DOMAIN store'
    /\ UNCHANGED <<adapter, checkedOut, now, op, pre>>

\* Faulty variant of UpdateIndex: the index is fed the partial input
UpdateIndexPartial(p) ==
    /\ pc[p] = "update.index"
    /\ \E ok \in BOOLEAN :
        LET r == PineconeUpdateAccessPoint(index,
                     Spread((kId :> op[p].id), op[p].updates), ok)
        IN /\ index' = r.index
           /\ Logged(p, "index.upsert", r.res, Fault(ok))
           /\ Resolve(p, tmp[p].supabaseResult)
    /\ UNCHANGED <<adapter, checkedOut, store, seen, now, op, pre>>

\* Faulty variant of UpdateIndex: the index is fed the record as it was when
\* the call started
UpdateIndexFromSnapshot(p) ==
    /\ pc[p] = "update.index"
    /\ \E ok \in BOOLEAN :
        LET fullAccessPoint == IF op[p].id \in DOMAIN pre[p].store
                               THEN toCamelCase(pre[p].store[op[p].id])
                               ELSE tmp[p].supabaseResult.data
            r == PineconeUpdateAccessPoint(index, fullAccessPoint, ok)
        IN /\ index' = r.index
           /\ Logged(p, "index.upsert", r.res, Fault(ok))
           /\ Resolve(p, tmp[p].supabaseResult)
    /\ UNCHANGED <<adapter, checkedOut, store, seen, now, op, pre>>

\* await this.pineconeOps.updateAccessPoint(supabaseResult.data): a failure is
\* logged and the store's envelope is returned all the same
UpdateIndex(p) ==
    /\ pc[p] = "update.index"
    /\ \E ok \in BOOLEAN :
        LET fullAccessPoint == tmp[p].supabaseResult.data
            r == PineconeUpdateAccessPoint(index, fullAccessPoint, ok)
        IN /\ index' = r.index
           /\ Logged(p, "index.upsert", r.res, Fault(ok))
           /\ Resolve(p, tmp[p].supabaseResult)
    /\ UNCHANGED <<adapter, checkedOut, store, seen, now, op, pre>>

---------------------------------------------------------------------------
\* deleteAccessPoint(id): Promise.allSettled over the two adapter calls
Fulfilled(value) == [value |-> value, status |-> "fulfilled"]
Pending == [status |-> "pending"]

StartDelete(p) ==
    \E id \in Ids :
        Invoke(p, [id |-> id, name |-> "delete"], "delete.settle",
               [supabaseResult |-> Pending, pineconeResult |-> Pending])

\* this.supabaseOps.deleteAccessPoint(id) settles
DeleteStore(p) ==
    /\ pc[p] = "delete.settle"
    /\ tmp[p].supabaseResult = Pending
    /\ \E ok \in BOOLEAN :
        LET r == StoreDelete(adapter, store, op[p].id, ok)
        IN /\ store' = r.store
           /\ Logged(p, "store.delete", r.res, Fault(ok))
           /\ tmp' = [tmp EXCEPT ![p].supabaseResult = Fulfilled(r.res)]
    /\ seen' = seen \cup DOMAIN store'
    /\ UNCHANGED <<adapter, checkedOut, index, now, pc, op, ret, pre, resynced>>

\* Faulty variant of DeleteIndex: the index delete is chained behind a store
\* delete that succeeded
DeleteIndexAfterStore(p) ==
    /\ pc[p] = "delete.settle"
    /\ tmp[p].pineconeResult = Pending
    /\ tmp[p].supabaseResult # Pending
    /\ tmp[p].supabaseResult.value.success
    /\ \E ok \in BOOLEAN :
        LET r == PineconeDeleteAccessPoint(index, op[p].id, ok)
        IN /\ index' = r.index
           /\ Logged(p, "index.delete", r.res, Fault(ok))
           /\ tmp' = [tmp EXCEPT ![p].pineconeResult = Fulfilled(r.res)]
    /\ UNCHANGED <<adapter, checkedOut, store, seen, now, pc, op, ret, pre, resynced>>

\* this.pineconeOps.deleteAccessPoint(id) settles
DeleteIndex(p) ==
    /\ pc[p] = "delete.settle"
    /\ tmp[p].pineconeResult = Pending
    /\ \E ok \in BOOLEAN :
        LET r == PineconeDeleteAccessPoint(index, op[p].id, ok)
        IN /\ index' = r.index
           /\ Logged(p, "index.delete", r.res, Fault(ok))
           /\ tmp' = [tmp EXCEPT ![p].pineconeResult = Fulfilled(r.res)]
    /\ UNCHANGED <<adapter, checkedOut, store, seen, now, pc, op, ret, pre, resynced>>

\* Faulty variant of DeleteResult: one failed side fails the call
DeleteResultStrict(supabaseResult, pineconeResult) ==
    LET supabaseSuccess ==
            supabaseResult.status = "fulfilled" /\ supabaseResult.value.success
        pineconeSuccess ==
            pineconeResult.status = "fulfilled" /\ pineconeResult.value.success
    IN IF ~supabaseSuccess \/ ~pineconeSuccess
       THEN Fail("Failed to delete from both databases")
       ELSE OkVoid

\* the envelope computed from the two settled results
DeleteResult(supabaseResult, pineconeResult) ==
    LET supabaseSuccess ==
            supabaseResult.status = "fulfilled" /\ supabaseResult.value.success
        pineconeSuccess ==
            pineconeResult.status = "fulfilled" /\ pineconeResult.value.success
    IN IF ~supabaseSuccess /\ ~pineconeSuccess
       THEN Fail("Failed to delete from both databases")
       ELSE OkVoid

\* both promises have settled: allSettled resolves and the method returns
DeleteSettled(p) ==
    /\ pc[p] = "delete.settle"
    /\ tmp[p].supabaseResult # Pending
    /\ tmp[p].pineconeResult # Pending
    /\ Resolve(p, DeleteResult(tmp[p].supabaseResult, tmp[p].pineconeResult))
    /\ UNCHANGED <<adapter, checkedOut, store, seen, index, now, op, log, pre>>

---------------------------------------------------------------------------
\* bulkSyncAccessPoints(accessPoints)
StartBulkSync(p) ==
    \E accessPoints \in InputBatches :
        Invoke(p, [accessPoints |-> accessPoints, name |-> "bulkSync"], "bulk.store", NoTmp)

\* Faulty variant of BulkStore: the store's failure envelope is not read
BulkStoreUnchecked(p) ==
    /\ pc[p] = "bulk.store"
    /\ \E failAt \in BulkFailures(adapter), rollbackOk \in BulkRollbacks(adapter) :
        LET r == StoreBulkInsert(adapter, store, op[p].accessPoints, Stamp(now),
                                 failAt, rollbackOk)
        IN /\ store' = r.store
           /\ Logged(p, "store.bulkInsert", r.res, failAt)
           /\ IF IsRejected(r.res)
              THEN Resolve(p, Fail("Failed to bulk sync access points"))
              ELSE Continue(p, "bulk.index", NoTmp)
    /\ seen' = seen \cup DOMAIN store'
    /\ UNCHANGED <<adapter, checkedOut, index, now, op, pre>>

\* Faulty variant of BulkStore: no try/catch around the store's bulk insert,
\* so its rejection is the rejection of bulkSyncAccessPoints
BulkStoreUncaught(p) ==
    /\ pc[p] = "bulk.store"
    /\ \E failAt \in BulkFailures(adapter), rollbackOk \in BulkRollbacks(adapter) :
        LET r == StoreBulkInsert(adapter, store, op[p].accessPoints, Stamp(now),
                                 failAt, rollbackOk)
        IN /\ store' = r.store
           /\ Logged(p, "store.bulkInsert", r.res, failAt)
           /\ IF IsRejected(r.res)
              THEN Resolve(p, r.res)
              ELSE IF ~r.res.success
              THEN Resolve(p, Fail("Failed to bulk sync to Supabase"))
              ELSE Continue(p, "bulk.index", NoTmp)
    /\ seen' = seen \cup DOMAIN store'
    /\ UNCHANGED <<adapter, checkedOut, index, now, op, pre>>

\* await this.supabaseOps.bulkInsertAccessPoints(accessPoints); a rejection is
\* caught by the method's catch block
BulkStore(p) ==
    /\ pc[p] = "bulk.store"
    /\ \E failAt \in BulkFailures(adapter), rollbackOk \in BulkRollbacks(adapter) :
        LET r == StoreBulkInsert(adapter, store, op[p].accessPoints, Stamp(now),
                                 failAt, rollbackOk)
        IN /\ store' = r.store
           /\ Logged(p, "store.bulkInsert", r.res, failAt)
           /\ IF IsRejected(r.res)
              THEN Resolve(p, Fail("Failed to bulk sync access points"))
              ELSE IF ~r.res.success
              THEN Resolve(p, Fail("Failed to bulk sync to Supabase"))
              ELSE Continue(p, "bulk.index", NoTmp)
    /\ seen' = seen \cup DOMAIN store'
    /\ UNCHANGED <<adapter, checkedOut, index, now, op, pre>>

\* await this.pineconeOps.bulkUpsertAccessPoints(accessPoints)
BulkIndex(p) ==
    /\ pc[p] = "bulk.index"
    /\ \E failAt \in 0..NumChunks(Len(op[p].accessPoints)) :
        LET r == PineconeBulkUpsertAccessPoints(index, op[p].accessPoints, failAt)
        IN /\ index' = r.index
           /\ Logged(p, "index.bulkUpsert", r.res,
                     IF failAt = 0 THEN "none" ELSE "request")
           /\ IF ~r.res.success
              THEN Continue(p, "bulk.retry", NoTmp)
              ELSE Resolve(p, OkVoid)
    /\ UNCHANGED <<adapter, checkedOut, store, seen, now, op, pre>>

\* Faulty variant of BulkRetry: a failed retry is retried again
BulkRetryAgain(p) ==
    /\ pc[p] = "bulk.retry"
    /\ \E failAt \in 0..NumChunks(Len(op[p].accessPoints)) :
        LET r == PineconeBulkUpsertAccessPoints(index, op[p].accessPoints, failAt)
        IN /\ index' = r.index
           /\ Len(log[p]) < 4
           /\ Logged(p, "index.bulkUpsert", r.res,
                     IF failAt = 0 THEN "none" ELSE "request")
           /\ IF ~r.res.success
              THEN Continue(p, "bulk.retry", NoTmp)
              ELSE Resolve(p, OkVoid)
    /\ UNCHANGED <<adapter, checkedOut, store, seen, now, op, pre>>

\* the retry: the same call once more
BulkRetry(p) ==
    /\ pc[p] = "bulk.retry"
    /\ \E failAt \in 0..NumChunks(Len(op[p].accessPoints)) :
        LET r == PineconeBulkUpsertAccessPoints(index, op[p].accessPoints, failAt)
        IN /\ index' = r.index
           /\ Logged(p, "index.bulkUpsert", r.res,
                     IF failAt = 0 THEN "none" ELSE "request")
           /\ IF ~r.res.success
              THEN Resolve(p, Fail("Failed to sync to Pinecone after retry. Supabase sync was successful."))
              ELSE Resolve(p, OkVoid)
    /\ UNCHANGED <<adapter, checkedOut, store, seen, now, op, pre>>

---------------------------------------------------------------------------
\* syncSupabaseToPinecone()
StartResync(p) == Invoke(p, [name |-> "resync"], "resync.read", NoTmp)

\* await this.supabaseOps.getAllAccessPoints()
ResyncRead(p) ==
    /\ pc[p] = "resync.read"
    /\ \E ok \in BOOLEAN, order \in SelectAllOrders(store) :
        LET r == StoreGetAll(adapter, store, order, ok)
        IN /\ Logged(p, "store.getAll", r, Fault(ok))
           /\ IF ~r.success
              THEN Resolve(p, Fail("Failed to fetch data from Supabase"))
              ELSE IF Len(r.data) = 0
              THEN Resolve(p, OkVoid)
              ELSE Continue(p, "resync.index", [accessPoints |-> r.data])
    /\ UNCHANGED <<adapter, checkedOut, store, seen, index, now, op, pre>>

\* Faulty variant of ResyncIndex: the index is rebuilt from the rows read, so
\* entries of ids the store does not hold are dropped
ResyncIndexRebuild(p) ==
    /\ pc[p] = "resync.index"
    /\ \E failAt \in 0..NumChunks(Len(tmp[p].accessPoints)) :
        LET r == PineconeBulkUpsertAccessPoints(EmptyMap, tmp[p].accessPoints, failAt)
        IN /\ index' = r.index
           /\ Logged(p, "index.bulkUpsert", r.res,
                     IF failAt = 0 THEN "none" ELSE "request")
           /\ Resolve(p, r.res)
    /\ UNCHANGED <<adapter, checkedOut, store, seen, now, op, pre>>

\* return await this.pineconeOps.bulkUpsertAccessPoints(accessPoints)
ResyncIndex(p) ==
    /\ pc[p] = "resync.index"
    /\ \E failAt \in 0..NumChunks(Len(tmp[p].accessPoints)) :
        LET r == PineconeBulkUpsertAccessPoints(index, tmp[p].accessPoints, failAt)
        IN /\ index' = r.index
           /\ Logged(p, "index.bulkUpsert", r.res,
                     IF failAt = 0 THEN "none" ELSE "request")
           /\ Resolve(p, r.res)
    /\ UNCHANGED <<adapter, checkedOut, store, seen, now, op, pre>>

---------------------------------------------------------------------------
\* getAccessPoint(id): return this.supabaseOps.getAccessPoint(id)
StartGet(p) ==
    \E id \in Ids : Invoke(p, [id |-> id, name |-> "get"], "get.store", NoTmp)

GetStore(p) ==
    /\ pc[p] = "get.store"
    /\ \E ok \in BOOLEAN :
        LET r == StoreGet(adapter, store, op[p].id, ok)
        IN /\ Logged(p, "store.get", r, Fault(ok))
           /\ Resolve(p, r)
    /\ UNCHANGED <<adapter, checkedOut, store, seen, index, now, op, pre>>

---------------------------------------------------------------------------
\* searchAccessPoints(query, topK = 10)
Queries == {"d1", "demo"}
TopKs == {1, 10}

StartSearch(p) ==
    \E query \in Queries, topK \in TopKs :
        Invoke(p, [query |-> query, topK |-> topK, name |-> "search"],
               "search.index", NoTmp)

\* Faulty variant of SearchIndex: an index answer without matches falls back
\* to the store's text search as a failed index call does
SearchIndexFallbackOnEmpty(p) ==
    /\ pc[p] = "search.index"
    /\ \E ok \in BOOLEAN, ranking \in Rankings(index, op[p].topK) :
        LET pineconeResult ==
                PineconeSearchSimilar(index, op[p].query, op[p].topK, ranking, ok)
        IN /\ LoggedQuery(p, pineconeResult, Fault(ok))
           /\ IF ~pineconeResult.success \/ Len(pineconeResult.data) = 0
              THEN Continue(p, "search.store", NoTmp)
              ELSE Continue(p, "search.get",
                            [accessPoints |-> << >>,
                             ids |-> [i \in DOMAIN pineconeResult.data |->
                                         pineconeResult.data[i].id]])
    /\ UNCHANGED <<adapter, checkedOut, store, seen, index, now, op, pre>>

\* await this.pineconeOps.searchSimilar(query, topK); on success the ids of
\* the matches are taken in the order of the answer
SearchIndex(p) ==
    /\ pc[p] = "search.index"
    /\ \E ok \in BOOLEAN, ranking \in Rankings(index, op[p].topK) :
        LET pineconeResult ==
                PineconeSearchSimilar(index, op[p].query, op[p].topK, ranking, ok)
        IN /\ LoggedQuery(p, pineconeResult, Fault(ok))
           /\ IF ~pineconeResult.success
              THEN Continue(p, "search.store", NoTmp)
              ELSE IF Len(pineconeResult.data) = 0
              THEN Resolve(p, Ok(<< >>))
              ELSE Continue(p, "search.get",
                            [accessPoints |-> << >>,
                             ids |-> [i \in DOMAIN pineconeResult.data |->
                                         pineconeResult.data[i].id]])
    /\ UNCHANGED <<adapter, checkedOut, store, seen, index, now, op, pre>>

\* return this.supabaseOps.searchAccessPoints(query)
SearchStore(p) ==
    /\ pc[p] = "search.store"
    /\ \E ok \in BOOLEAN, order \in SelectAllOrders(MatchingRows(store, op[p].query)) :
        LET r == StoreSearch(adapter, store, op[p].query, order, ok)
        IN /\ Logged(p, "store.search", r, Fault(ok))
           /\ Resolve(p, r)
    /\ UNCHANGED <<adapter, checkedOut, store, seen, index, now, op, pre>>

\* Faulty variant of SearchGet: a record the store resolves is put in front
\* of the records found so far
SearchGetPrepend(p) ==
    /\ pc[p] = "search.get"
    /\ \E ok \in BOOLEAN :
        LET id == tmp[p].ids[Len(log[p])]
            apResult == StoreGet(adapter, store, id, ok)
            accessPoints == IF apResult.success
                            THEN << apResult.data >> \o tmp[p].accessPoints
                            ELSE tmp[p].accessPoints
        IN /\ Logged(p, "store.get", apResult, Fault(ok))
           /\ IF Len(log[p]) = Len(tmp[p].ids)
              THEN Resolve(p, Ok(accessPoints))
              ELSE Continue(p, "search.get", [tmp[p] EXCEPT !.accessPoints = accessPoints])
    /\ UNCHANGED <<adapter, checkedOut, store, seen, index, now, op, pre>>

\* one turn of for (const id of ids): await this.supabaseOps.getAccessPoint(id),
\* pushed when it succeeded.  The index query is the first entry of the log,
\* so the turn for ids[k] is taken when the log holds k entries.
SearchGet(p) ==
    /\ pc[p] = "search.get"
    /\ \E ok \in BOOLEAN :
        LET id == tmp[p].ids[Len(log[p])]
            apResult == StoreGet(adapter, store, id, ok)
            accessPoints == IF apResult.success
                            THEN Append(tmp[p].accessPoints, apResult.data)
                            ELSE tmp[p].accessPoints
        IN /\ Logged(p, "store.get", apResult, Fault(ok))
           /\ IF Len(log[p]) = Len(tmp[p].ids)
              THEN Resolve(p, Ok(accessPoints))
              ELSE Continue(p, "search.get", [tmp[p] EXCEPT !.accessPoints = accessPoints])
    /\ UNCHANGED <<adapter, checkedOut, store, seen, index, now, op, pre>>

---------------------------------------------------------------------------
\* healthCheck(): Promise.allSettled over getAllAccessPoints() and
\* searchSimilar('test', 1)
StartHealthCheck(p) ==
    Invoke(p, [name |-> "healthCheck"], "health.settle",
           [supabaseCheck |-> Pending, pineconeCheck |-> Pending])

\* this.supabaseOps.getAllAccessPoints() settles
HealthStore(p) ==
    /\ pc[p] = "health.settle"
    /\ tmp[p].supabaseCheck = Pending
    /\ \E ok \in BOOLEAN, order \in SelectAllOrders(store) :
        LET r == StoreGetAll(adapter, store, order, ok)
        IN /\ Logged(p, "store.getAll", r, Fault(ok))
           /\ tmp' = [tmp EXCEPT ![p].supabaseCheck = Fulfilled(r)]
    /\ UNCHANGED <<adapter, checkedOut, store, seen, index, now, pc, op, ret, pre, resynced>>

\* this.pineconeOps.searchSimilar('test', 1) settles
HealthIndex(p) ==
    /\ pc[p] = "health.settle"
    /\ tmp[p].pineconeCheck = Pending
    /\ \E ok \in BOOLEAN, ranking \in Rankings(index, 1) :
        LET r == PineconeSearchSimilar(index, "test", 1, ranking, ok)
        IN /\ Logged(p, "index.query", r, Fault(ok))
           /\ tmp' = [tmp EXCEPT ![p].pineconeCheck = Fulfilled(r)]
    /\ UNCHANGED <<adapter, checkedOut, store, seen, index, now, pc, op, ret, pre, resynced>>

\* Faulty variant of HealthResult: one failed probe marks both backends down
HealthResultJoint(supabaseCheck, pineconeCheck) ==
    LET both == /\ supabaseCheck.status = "fulfilled" /\ supabaseCheck.value.success
                /\ pineconeCheck.status = "fulfilled" /\ pineconeCheck.value.success
    IN [supabase |-> both, pinecone |-> both]

\* the pair computed from the two settled probes
HealthResult(supabaseCheck, pineconeCheck) ==
    [supabase |-> supabaseCheck.status = "fulfilled" /\ supabaseCheck.value.success,
     pinecone |-> pineconeCheck.status = "fulfilled" /\ pineconeCheck.value.success]

\* both probes have settled: allSettled resolves and the method returns
HealthSettled(p) ==
    /\ pc[p] = "health.settle"
    /\ tmp[p].supabaseCheck # Pending
    /\ tmp[p].pineconeCheck # Pending
    /\ Resolve(p, HealthResult(tmp[p].supabaseCheck, tmp[p].pineconeCheck))
    /\ UNCHANGED <<adapter, checkedOut, store, seen, index, now, op, log, pre>>

---------------------------------------------------------------------------
\* a step of a method that is running
Step(p) ==
    \/ CreateStore(p) \/ CreateIndex(p) \/ CreateRollback(p)
    \/ UpdateStore(p) \/ UpdateIndex(p)
    \/ DeleteStore(p) \/ DeleteIndex(p) \/ DeleteSettled(p)
    \/ BulkStore(p) \/ BulkIndex(p) \/ BulkRetry(p)
    \/ ResyncRead(p) \/ ResyncIndex(p)
    \/ Return(p)

\* a caller invokes a method
Start(p) ==
    \/ StartCreate(p) \/ StartUpdate(p) \/ StartDelete(p)
    \/ StartBulkSync(p) \/ StartResync(p)

\* Calls made one after the other: a method is invoked when no other runs
Next ==
    \E p \in {"c1"} :
        \/ Step(p)
        \/ (\A q \in Callers : pc[q] = "idle") /\ Start(p)

Spec == Init /\ [][Next]_vars

\* getAllAccessPoints(): return this.supabaseOps.getAllAccessPoints()
StartGetAll(p) == Invoke(p, [name |-> "getAll"], "getAll.store", NoTmp)

GetAllStore(p) ==
    /\ pc[p] = "getAll.store"
    /\ \E ok \in BOOLEAN, order \in SelectAllOrders(store) :
        LET r == StoreGetAll(adapter, store, order, ok)
        IN /\ Logged(p, "store.getAll", r, Fault(ok))
           /\ Resolve(p, r)
    /\ UNCHANGED <<adapter, checkedOut, store, seen, index, now, op, pre>>

\* Reads next to the single-record writes that make the two backends drift:
\* create, delete, get, search and healthCheck, one call after the other
StepQuery(p) ==
    \/ CreateStore(p) \/ CreateIndex(p) \/ CreateRollback(p)
    \/ DeleteStore(p) \/ DeleteIndex(p) \/ DeleteSettled(p)
    \/ GetStore(p) \/ GetAllStore(p)
    \/ SearchIndex(p) \/ SearchStore(p) \/ SearchGet(p)
    \/ HealthStore(p) \/ HealthIndex(p) \/ HealthSettled(p)
    \/ Return(p)

StartQuery(p) ==
    \/ StartCreate(p) \/ StartDelete(p)
    \/ StartGet(p) \/ StartGetAll(p) \/ StartSearch(p) \/ StartHealthCheck(p)

NextQuery ==
    \E p \in {"c1"} :
        \/ StepQuery(p)
        \/ (\A q \in Callers : pc[q] = "idle") /\ StartQuery(p)

SpecQuery == Init /\ [][NextQuery]_vars

\* Every method of DataSyncManager that returns an envelope, called one after
\* the other
NextAll ==
    \E p \in {"c1"} :
        \/ CreateStore(p) \/ CreateIndex(p) \/ CreateRollback(p)
        \/ UpdateStore(p) \/ UpdateIndex(p)
        \/ DeleteStore(p) \/ DeleteIndex(p) \/ DeleteSettled(p)
        \/ BulkStore(p) \/ BulkIndex(p) \/ BulkRetry(p)
        \/ ResyncRead(p) \/ ResyncIndex(p)
        \/ GetStore(p) \/ GetAllStore(p)
        \/ SearchIndex(p) \/ SearchStore(p) \/ SearchGet(p)
        \/ Return(p)
        \/ /\ \A q \in Callers : pc[q] = "idle"
           /\ \/ StartCreate(p) \/ StartUpdate(p) \/ StartDelete(p)
              \/ StartBulkSync(p) \/ StartResync(p)
              \/ StartGet(p) \/ StartGetAll(p) \/ StartSearch(p)

SpecAll == Init /\ [][NextAll]_vars





(***************************************************************************)
(* Calls of two callers interleaved at the awaits.  All calls are about    *)
(* the one id "a": caller c1 issues the calls that write to the index      *)
(* (create, update, bulkSync, resync), caller c2 those that take rows out  *)
(* of the table (delete, and create with its rollback).                    *)
(***************************************************************************)
RaceRecords == { AccessPoint("a", "s1", "d1") }
RaceBatches == UNION { [1..n -> RaceRecords] : n \in 1..MaxBatch }

RaceCreate(p) ==
    \E accessPoint \in RaceRecords :
        Invoke(p, [accessPoint |-> accessPoint, name |-> "create"], "create.store", NoTmp)

RaceUpdate(p) ==
    \E updates \in { (kDescription :> "d2") } :
        Invoke(p, [id |-> "a", updates |-> updates, name |-> "update"], "update.store", NoTmp)

RaceDelete(p) ==
    Invoke(p, [id |-> "a", name |-> "delete"], "delete.settle",
           [supabaseResult |-> Pending, pineconeResult |-> Pending])

RaceBulkSync(p) ==
    \E accessPoints \in RaceBatches :
        Invoke(p, [accessPoints |-> accessPoints, name |-> "bulkSync"], "bulk.store", NoTmp)

NextRace ==
    \/ \E p \in Callers : Step(p)
    \/ \E p \in {"c1"} : RaceCreate(p) \/ RaceUpdate(p) \/ RaceBulkSync(p) \/ StartResync(p)
    \/ \E p \in {"c2"} : RaceCreate(p) \/ RaceDelete(p)

SpecRace == Init /\ [][NextRace]_vars

(***************************************************************************)
(* The methods that write or search, called one after the other, over a    *)
(* backend whose every call settles.  A method suspended at an await is    *)
(* resumed once the promise of its adapter call has settled, whether the   *)
(* call succeeded or failed, so each await of a running method is taken.   *)
(***************************************************************************)
SettleRecords == { AccessPoint(i, "s1", "d1") : i \in Ids }
SettleBatches == { b \in [1..MaxBatch -> SettleRecords] : b[1][kId] = "a" }

\* create of either id, update and delete of id "a", bulkSync of a full batch
\* that starts with id "a", resync, and search for a description in use
SettleStart(p) ==
    \/ \E accessPoint \in SettleRecords :
          Invoke(p, [accessPoint |-> accessPoint, name |-> "create"], "create.store", NoTmp)
    \/ RaceUpdate(p)
    \/ RaceDelete(p)
    \/ \E accessPoints \in SettleBatches :
          Invoke(p, [accessPoints |-> accessPoints, name |-> "bulkSync"], "bulk.store", NoTmp)
    \/ StartResync(p)
    \/ \E topK \in TopKs :
          Invoke(p, [query |-> "d1", topK |-> topK, name |-> "search"], "search.index", NoTmp)

Settle(p) ==
    \/ CreateStore(p) \/ CreateIndex(p) \/ CreateRollback(p)
    \/ UpdateStore(p) \/ UpdateIndex(p)
    \/ DeleteStore(p) \/ DeleteIndex(p) \/ DeleteSettled(p)
    \/ BulkStore(p) \/ BulkIndex(p) \/ BulkRetry(p)
    \/ ResyncRead(p) \/ ResyncIndex(p)
    \/ SearchIndex(p) \/ SearchStore(p) \/ SearchGet(p)

NextSettle ==
    \E p \in {"c1"} :
        \/ CreateStore(p) \/ CreateIndex(p) \/ CreateRollback(p)
        \/ UpdateStore(p) \/ UpdateIndex(p)
        \/ DeleteStore(p) \/ DeleteIndex(p) \/ DeleteSettled(p)
        \/ BulkStore(p) \/ BulkIndex(p) \/ BulkRetry(p)
        \/ ResyncRead(p) \/ ResyncIndex(p)
        \/ SearchIndex(p) \/ SearchStore(p) \/ SearchGet(p)
        \/ Return(p)
        \/ (\A q \in Callers : pc[q] = "idle") /\ SettleStart(p)

SpecSettle == Init /\ [][NextSettle]_vars /\ \A p \in Callers : WF_vars(Settle(p))

(***************************************************************************)
(* Key conversion on its own: a key is converted by toSnakeCase and the    *)
(* result by toCamelCase, as a record goes to the table and comes back     *)
(***************************************************************************)
\* the field names of interface AccessPoint
FieldNames ==
    { << "i","d" >>,
      << "s","u","b","n","e","t","I","D" >>,
      << "s","u","b","n","e","t","N","a","m","e" >>,
      << "d","e","s","c","r","i","p","t","i","o","n" >>,
      << "i","n","p","u","t" >>,
      << "o","u","t","p","u","t" >>,
      << "i","n","p","u","t","T","y","p","e" >>,
      << "o","u","t","p","u","t","T","y","p","e" >>,
      << "c","a","p","a","b","i","l","i","t","i","e","s" >>,
      << "t","a","g","s" >>,
      << "p","r","o","m","p","t","E","x","a","m","p","l","e" >>,
      << "f","i","l","e","U","p","l","o","a","d" >>,
      << "f","i","l","e","D","o","w","n","l","o","a","d" >>,
      << "s","u","b","n","e","t","U","R","L" >>,
      << "c","r","e","a","t","e","d","A","t" >>,
      << "u","p","d","a","t","e","d","A","t" >> }

\* other keys: every key of up to MaxKeyLen characters over KeyChars
MaxKeyLen == 3
KeyChars == {"a", "b", "B", "_"}
OtherKeys == UNION { [1..n -> KeyChars] : n \in 1..MaxKeyLen }

InitKeys ==
    /\ adapter \in Adapters
    /\ checkedOut = 0
    /\ store = EmptyMap
    /\ seen = {}
    /\ index = EmptyMap
    /\ now = 1
    /\ \E key \in FieldNames \cup OtherKeys :
          op = [p \in Callers |-> IF p = "c1" THEN [key |-> key, name |-> "convert"]
                                  ELSE NoOp]
    /\ pc = [p \in Callers |-> IF p = "c1" THEN "convert.snake" ELSE "idle"]
    /\ tmp = [p \in Callers |-> NoTmp]
    /\ ret = [p \in Callers |-> NoRet]
    /\ log = [p \in Callers |-> << >>]
    /\ pre = [p \in Callers |-> NoPre]
    /\ resynced = FALSE

\* const snakeKey = key.replace(...)...  for a property with a value
KeyToSnake(p) ==
    /\ pc[p] = "convert.snake"
    /\ pc' = [pc EXCEPT ![p] = "convert.camel"]
    /\ tmp' = [tmp EXCEPT ![p] = [snakeKey |-> SnakeKey(op[p].key)]]
    /\ UNCHANGED <<adapter, checkedOut, store, seen, index, now, op, ret, log, pre, resynced>>

\* const camelKey = key.replace(...) on the key the table gives back
KeyToCamel(p) ==
    /\ pc[p] = "convert.camel"
    /\ pc' = [pc EXCEPT ![p] = "done"]
    /\ ret' = [ret EXCEPT ![p] = [camelKey |-> CamelKey(tmp[p].snakeKey)]]
    /\ UNCHANGED <<adapter, checkedOut, store, seen, index, now, op, tmp, log, pre, resynced>>

NextKeys == \E p \in {"c1"} : KeyToSnake(p) \/ KeyToCamel(p)

SpecKeys == InitKeys /\ [][NextKeys]_vars


(***************************************************************************)
(* The embedding on its own: generateEmbedding is run twice on one text,   *)
(* each time with or without OPENAI_API_KEY in the environment.  A text is *)
(* the sequence of its UTF-16 code units, a component of the vector is     *)
(* kept as its numerator over 1000.                                        *)
(***************************************************************************)
EMBEDDING_DIMENSION == 1024

\* the 16-bit halves of a 32-bit integer, and the integer of two halves
Hi(n) == (n \div 65536) % 65536
Lo(n) == n % 65536
Int32(hi, lo) == IF hi >= 32768 THEN (hi - 65536) * 65536 + lo ELSE hi * 65536 + lo

\* hash << 5
ShiftLeft5(n) ==
    LET l == Lo(n) * 32
    IN  Int32((Hi(n) * 32 + l \div 65536) % 65536, l % 65536)

\* Faulty variant of HashStep: the hash is added where the code subtracts it
HashStepPlus(hash, char) ==
    LET s == ShiftLeft5(hash)
        l == Lo(s) + Lo(hash) + char
        h == Hi(s) + Hi(hash) + l \div 65536
    IN  Int32(h % 65536, l % 65536)

\* hash = ((hash << 5) - hash) + char; hash |= 0
HashStep(hash, char) ==
    LET s == ShiftLeft5(hash)
        l == Lo(s) - Lo(hash) + char
        h == Hi(s) - Hi(hash) + l \div 65536
    IN  Int32(h % 65536, l % 65536)

\* a % n of JavaScript: the sign of the dividend
JsRem(a, n) == IF a >= 0 \/ a % n = 0 THEN a % n ELSE (a % n) - n

\* one pass of the loop body at position i (0-based)
HashBody(textToEmbed, i, st) ==
    LET char == textToEmbed[i + 1]
        h == HashStep(st.hash, char)
    IN  [hash |-> h,
         vector |-> [st.vector EXCEPT ![(i % EMBEDDING_DIMENSION) + 1] =
                                          JsRem(h, 2000) - 1000]]

\* the passes for i = from, from + 1, .. to - 1 in this order.  The range is
\* split in two and the first half is evaluated, as the one element of a
\* set, before the second starts, so that the evaluation nests to a depth
\* of log(to - from) and not of to - from
RECURSIVE HashLoop(_, _, _, _)
HashLoop(textToEmbed, from, to, st) ==
    IF to <= from THEN st
    ELSE IF to = from + 1 THEN HashBody(textToEmbed, from, st)
    ELSE LET mid == from + (to - from) \div 2
         IN  CHOOSE r \in { HashLoop(textToEmbed, mid, to, s) :
                                s \in { HashLoop(textToEmbed, from, mid, st) } } : TRUE

\* const vector = new Array(EMBEDDING_DIMENSION).fill(0); let hash = 0
HashStart == [hash |-> 0, vector |-> [j \in 1..EMBEDDING_DIMENSION |-> 0]]

\* a variant in which the key in the environment changes the vector
HashEmbeddingKeyed(textToEmbed, openaiKey) ==
    IF openaiKey THEN [j \in 1..EMBEDDING_DIMENSION |-> 1000]
    ELSE HashLoop(textToEmbed, 0, Len(textToEmbed), HashStart).vector

\* generateEmbedding from textToEmbed on: with the key present a message is
\* logged and the hash-based vector is computed all the same
HashEmbedding(textToEmbed, openaiKey) ==
    HashLoop(textToEmbed, 0, Len(textToEmbed), HashStart).vector

\* texts: every text of up to MaxTextLen units over TextCodes, one text
\* longer than the vector, and the beginning of a text the program builds
MaxTextLen == 3
TextCodes == {32, 97, 65535}
LongText == [i \in 1..(EMBEDDING_DIMENSION + 1) |-> 97]
\* "ID: ab", as textToEmbed begins for an access point with id "ab..."
IdText == << 73, 68, 58, 32, 97, 98 >>
Texts == UNION { [1..n -> TextCodes] : n \in 0..MaxTextLen } \cup {LongText, IdText}

InitEmbedding ==
    /\ adapter \in Adapters
    /\ checkedOut = 0
    /\ store = EmptyMap
    /\ seen = {}
    /\ index = EmptyMap
    /\ now = 1
    /\ \E text \in Texts :
          op = [p \in Callers |-> IF p = "c1" THEN [name |-> "embed", text |-> text]
                                  ELSE NoOp]
    /\ pc = [p \in Callers |-> IF p = "c1" THEN "embed.first" ELSE "idle"]
    /\ tmp = [p \in Callers |-> NoTmp]
    /\ ret = [p \in Callers |-> NoRet]
    /\ log = [p \in Callers |-> << >>]
    /\ pre = [p \in Callers |-> NoPre]
    /\ resynced = FALSE

\* the first computation
EmbedFirst(p) ==
    /\ pc[p] = "embed.first"
    /\ \E openaiKey \in BOOLEAN :
          tmp' = [tmp EXCEPT ![p] = [vector |-> HashEmbedding(op[p].text, openaiKey),
                                     openaiKey |-> openaiKey]]
    /\ pc' = [pc EXCEPT ![p] = "embed.second"]
    /\ UNCHANGED <<adapter, checkedOut, store, seen, index, now, op, ret, log, pre, resynced>>

\* the second computation on the same text
EmbedSecond(p) ==
    /\ pc[p] = "embed.second"
    /\ \E openaiKey \in BOOLEAN :
          ret' = [ret EXCEPT ![p] = [vector |-> HashEmbedding(op[p].text, openaiKey),
                                     openaiKey |-> openaiKey]]
    /\ pc' = [pc EXCEPT ![p] = "done"]
    /\ UNCHANGED <<adapter, checkedOut, store, seen, index, now, op, tmp, log, pre, resynced>>

NextEmbedding == \E p \in {"c1"} : EmbedFirst(p) \/ EmbedSecond(p)

SpecEmbedding == InitEmbedding /\ [][NextEmbedding]_vars


(***************************************************************************)
(* The loop of generateEmbedding pass by pass: tmp holds i, hash and       *)
(* vector, log the hash after each pass.                                   *)
(***************************************************************************)
InitHashLoop ==
    /\ adapter \in Adapters
    /\ checkedOut = 0
    /\ store = EmptyMap
    /\ seen = {}
    /\ index = EmptyMap
    /\ now = 1
    /\ \E text \in Texts :
          op = [p \in Callers |-> IF p = "c1" THEN [name |-> "hash", text |-> text]
                                  ELSE NoOp]
    /\ pc = [p \in Callers |-> IF p = "c1" THEN "hash.loop" ELSE "idle"]
    /\ tmp = [p \in Callers |-> IF p = "c1" THEN [i |-> 0, st |-> HashStart] ELSE NoTmp]
    /\ ret = [p \in Callers |-> NoRet]
    /\ log = [p \in Callers |-> << >>]
    /\ pre = [p \in Callers |-> NoPre]
    /\ resynced = FALSE

\* one pass: i < textToEmbed.length
HashPass(p) ==
    /\ pc[p] = "hash.loop"
    /\ tmp[p].i < Len(op[p].text)
    /\ LET st == HashBody(op[p].text, tmp[p].i, tmp[p].st)
       IN  /\ tmp' = [tmp EXCEPT ![p] = [i |-> tmp[p].i + 1, st |-> st]]
           /\ log' = [log EXCEPT ![p] = Append(@, st.hash)]
    /\ UNCHANGED <<adapter, checkedOut, store, seen, index, now, pc, op, ret, pre, resynced>>

\* the loop is left: return vector
HashReturn(p) ==
    /\ pc[p] = "hash.loop"
    /\ tmp[p].i >= Len(op[p].text)
    /\ pc' = [pc EXCEPT ![p] = "done"]
    /\ ret' = [ret EXCEPT ![p] = [vector |-> tmp[p].st.vector]]
    /\ UNCHANGED <<adapter, checkedOut, store, seen, index, now, op, tmp, log, pre, resynced>>

NextHashLoop == \E p \in {"c1"} : HashPass(p) \/ HashReturn(p)

SpecHashLoop == InitHashLoop /\ [][NextHashLoop]_vars


(***************************************************************************)
(* bulkUpsertAccessPoints on its own, with batches that span several       *)
(* chunks: the records of a batch have the ids 1, 2, ..                    *)
(***************************************************************************)
MaxChunks == 3

\* batch lengths around the chunk borders
BatchLengths ==
    { k * chunkSize + d : k \in 0..(MaxChunks - 1), d \in {0, 1, chunkSize - 1} }

LongBatch(n) == [i \in 1..n |-> AccessPoint(i, "s1", "d1")]

\* the index before the call: empty, or holding older entries of ids that
\* fall into the first and into the second chunk
OlderIndexes ==
    { EmptyMap,
      IndexUpsert(EmptyMap, << VectorData(AccessPoint(1, "s2", "d2")),
                               VectorData(AccessPoint(chunkSize + 1, "s2", "d2")) >>) }

InitChunks ==
    /\ adapter \in Adapters
    /\ checkedOut = 0
    /\ store = EmptyMap
    /\ seen = {}
    /\ index \in OlderIndexes
    /\ now = 1
    /\ \E n \in BatchLengths :
          op = [p \in Callers |->
                   IF p = "c1" THEN [accessPoints |-> LongBatch(n), name |-> "bulkUpsert"]
                   ELSE NoOp]
    /\ pc = [p \in Callers |-> IF p = "c1" THEN "bulkUpsert.call" ELSE "idle"]
    /\ tmp = [p \in Callers |-> NoTmp]
    /\ ret = [p \in Callers |-> NoRet]
    /\ log = [p \in Callers |-> << >>]
    /\ pre = [p \in Callers |->
                 IF p = "c1" THEN [store |-> store, index |-> index, resynced |-> FALSE]
                 ELSE NoPre]
    /\ resynced = FALSE

\* await this.pineconeOps.bulkUpsertAccessPoints(accessPoints); log keeps the
\* number of the chunk whose request failed (0: none)
BulkUpsertCall(p) ==
    /\ pc[p] = "bulkUpsert.call"
    /\ \E failAt \in 0..NumChunks(Len(op[p].accessPoints)) :
        LET r == PineconeBulkUpsertAccessPoints(index, op[p].accessPoints, failAt)
        IN /\ index' = r.index
           /\ ret' = [ret EXCEPT ![p] = r.res]
           /\ log' = [log EXCEPT ![p] = << failAt >>]
    /\ pc' = [pc EXCEPT ![p] = "done"]
    /\ UNCHANGED <<adapter, checkedOut, store, seen, now, op, tmp, pre, resynced>>

NextChunks == \E p \in {"c1"} : BulkUpsertCall(p)

SpecChunks == InitChunks /\ [][NextChunks]_vars

(***************************************************************************)
(* DatabaseOperations statement by statement: every await of a method is a *)
(* step of its caller, and two callers share the pool.                     *)
(***************************************************************************)
\* let client = null, before the first await of a method
NoClient == [res |-> NoRet, failAt |-> "none", client |-> FALSE]

InitPool ==
    /\ adapter = "DatabaseOperations"
    /\ checkedOut = 0
    /\ store = EmptyMap
    /\ seen = {}
    /\ index = EmptyMap
    /\ now = 1
    /\ pc = [p \in Callers |-> "idle"]
    /\ op = [p \in Callers |-> NoOp]
    /\ tmp = [p \in Callers |-> NoTmp]
    /\ ret = [p \in Callers |-> NoRet]
    /\ log = [p \in Callers |-> << >>]
    /\ pre = [p \in Callers |-> NoPre]
    /\ resynced = FALSE

\* the calls of the adapter's methods, on records of one id: a valid record
\* and one the table refuses
PoolRecords == { AccessPoint("a", "s1", d) : d \in {"d1", Null} }
PoolBatches == UNION { [1..n -> PoolRecords] : n \in 0..(MaxBatch - 1) }
DbCalls ==
    { [accessPoint |-> a, name |-> "create"] : a \in PoolRecords } \cup
    { [id |-> "a", updates |-> (kDescription :> "d2"), name |-> "update"] } \cup
    { [id |-> "a", name |-> n] : n \in {"get", "delete"} } \cup
    { [name |-> "getAll"] } \cup
    { [query |-> "d1", name |-> "search"] } \cup
    { [accessPoints |-> b, name |-> "bulkInsert"] : b \in PoolBatches }

\* the envelope a method's catch block returns
DbFailure(name) ==
    CASE name = "create" -> Fail("Failed to create access point")
      [] name = "update" -> Fail("Failed to update access point")
      [] name = "get" -> Fail("Failed to get access point")
      [] name = "getAll" -> Fail("Failed to get all access points")
      [] name = "delete" -> Fail("Failed to delete access point")
      [] name = "search" -> Fail("Failed to search access points")
      [] name = "bulkInsert" -> Fail("Failed to bulk insert access points")

DbStart(p) ==
    \E call \in DbCalls : Invoke(p, call, "db.connect", NoClient)

\* client = await this.pool.connect(): a connect that throws goes to the catch
\* block with client still null, so nothing is rolled back or released
DbConnect(p) ==
    /\ pc[p] = "db.connect"
    /\ \E ok \in BOOLEAN :
        IF ok
        THEN /\ checkedOut' = checkedOut + 1
             /\ Continue(p, IF op[p].name = "bulkInsert" THEN "db.begin" ELSE "db.query",
                         [tmp[p] EXCEPT !.client = TRUE])
        ELSE /\ checkedOut' = checkedOut
             /\ Resolve(p, DbFailure(op[p].name))
    /\ UNCHANGED <<adapter, store, seen, index, now, op, log, pre>>

\* the one query of a method other than bulkInsertAccessPoints: the try block
\* returns an envelope, or the query throws and the catch block returns one
DbQuery(p) ==
    /\ pc[p] = "db.query"
    /\ \E ok \in BOOLEAN,
          order \in SelectAllOrders(IF op[p].name = "search"
                                    THEN MatchingRows(store, op[p].query)
                                    ELSE store) :
        LET t == Stamp(now)
            r == CASE op[p].name = "create" ->
                        DatabaseCreateAccessPoint(store, op[p].accessPoint, t, ok)
                   [] op[p].name = "update" ->
                        DatabaseUpdateAccessPoint(store, op[p].id, op[p].updates, t, ok)
                   [] op[p].name = "get" ->
                        [store |-> store, res |-> DatabaseGetAccessPoint(store, op[p].id, ok)]
                   [] op[p].name = "getAll" ->
                        [store |-> store, res |-> DatabaseGetAllAccessPoints(store, order, ok)]
                   [] op[p].name = "delete" ->
                        DatabaseDeleteAccessPoint(store, op[p].id, ok)
                   [] op[p].name = "search" ->
                        [store |-> store,
                         res |-> DatabaseSearchAccessPoints(store, op[p].query, order, ok)]
        IN /\ store' = r.store
           /\ Continue(p, "db.release", [tmp[p] EXCEPT !.res = r.res])
    /\ seen' = seen \cup DOMAIN store'
    /\ UNCHANGED <<adapter, checkedOut, index, now, op, log, pre>>

\* await client.query('BEGIN')
DbBegin(p) ==
    /\ pc[p] = "db.begin"
    /\ \E ok \in BOOLEAN :
        IF ~ok
        THEN Continue(p, "db.rollback", [tmp[p] EXCEPT !.failAt = "BEGIN"])
        ELSE IF Len(op[p].accessPoints) > 0
        THEN Continue(p, "db.insert", tmp[p])
        ELSE Continue(p, "db.commit", tmp[p])
    /\ UNCHANGED <<adapter, checkedOut, store, seen, index, now, op, log, pre>>

\* await client.query(query, values): INSERT ... ON CONFLICT inside the
\* transaction; its rows are not visible before COMMIT
DbInsert(p) ==
    /\ pc[p] = "db.insert"
    /\ \E ok \in BOOLEAN :
        LET r == DatabaseBulkInsertAccessPoints(store, op[p].accessPoints, Stamp(now),
                    IF ok THEN "none" ELSE "INSERT", TRUE)
        IN IF r.res.success
           THEN Continue(p, "db.commit", tmp[p])
           ELSE Continue(p, "db.rollback", [tmp[p] EXCEPT !.failAt = "INSERT"])
    /\ UNCHANGED <<adapter, checkedOut, store, seen, index, now, op, log, pre>>

\* await client.query('COMMIT'): the rows of the transaction become durable
DbCommit(p) ==
    /\ pc[p] = "db.commit"
    /\ \E ok \in BOOLEAN :
        LET r == DatabaseBulkInsertAccessPoints(store, op[p].accessPoints, Stamp(now),
                    IF ok THEN "none" ELSE "COMMIT", TRUE)
        IN /\ store' = r.store
           /\ IF ok
              THEN Continue(p, "db.release", [tmp[p] EXCEPT !.res = r.res])
              ELSE Continue(p, "db.rollback", [tmp[p] EXCEPT !.failAt = "COMMIT"])
    /\ seen' = seen \cup DOMAIN store'
    /\ UNCHANGED <<adapter, checkedOut, index, now, op, log, pre>>

\* Faulty variant of DbRollback: client.release() at the end of the catch
\* block, so a ROLLBACK that throws skips it
DbRollbackThenRelease(p) ==
    /\ pc[p] = "db.rollback"
    /\ \E rollbackOk \in BOOLEAN :
        LET r == DatabaseBulkInsertAccessPoints(store, op[p].accessPoints, Stamp(now),
                    tmp[p].failAt, rollbackOk)
        IN IF rollbackOk
           THEN /\ Continue(p, "db.release", [tmp[p] EXCEPT !.res = r.res])
                /\ UNCHANGED op
           ELSE /\ Resolve(p, r.res)
                /\ UNCHANGED op
    /\ UNCHANGED <<adapter, checkedOut, store, seen, index, now, log, pre>>

\* the catch block of bulkInsertAccessPoints: await client.query('ROLLBACK'),
\* then the failure envelope; a ROLLBACK that throws leaves the catch block
\* with the promise rejected.  The finally block runs in both cases.
DbRollback(p) ==
    /\ pc[p] = "db.rollback"
    /\ \E rollbackOk \in BOOLEAN :
        LET r == DatabaseBulkInsertAccessPoints(store, op[p].accessPoints, Stamp(now),
                    tmp[p].failAt, rollbackOk)
        IN Continue(p, "db.release", [tmp[p] EXCEPT !.res = r.res])
    /\ UNCHANGED <<adapter, checkedOut, store, seen, index, now, op, log, pre>>

\* finally { if (client) client.release() }, then the promise settles
DbRelease(p) ==
    /\ pc[p] = "db.release"
    /\ checkedOut' = IF tmp[p].client THEN checkedOut - 1 ELSE checkedOut
    /\ Resolve(p, tmp[p].res)
    /\ UNCHANGED <<adapter, store, seen, index, now, op, log, pre>>

NextPool ==
    \E p \in Callers :
        \/ DbStart(p)
        \/ DbConnect(p)
        \/ DbQuery(p)
        \/ DbBegin(p)
        \/ DbInsert(p)
        \/ DbCommit(p)
        \/ DbRollback(p)
        \/ DbRelease(p)
        \/ Return(p)

SpecPool == InitPool /\ [][NextPool]_vars

(***************************************************************************)
(* The store adapter's writes with caller-supplied timestamps: one caller, *)
(* one adapter call per step, and a clock that advances.                   *)
(***************************************************************************)
\* the optional fields createdAt and updatedAt of AccessPoint (types.ts)
kCreatedAt == << "c","r","e","a","t","e","d","A","t" >>
kUpdatedAt == << "u","p","d","a","t","e","d","A","t" >>

\* a timestamp a caller supplies: one before every reading of the clock
CallerStamp == Stamp(0)

\* the timestamp fields a caller may put in its input
CallerTimestamps ==
    { EmptyMap, (kCreatedAt :> CallerStamp), (kUpdatedAt :> CallerStamp),
      (kCreatedAt :> CallerStamp) @@ (kUpdatedAt :> CallerStamp),
      (kCreatedAt :> Null) }

StampedRecords == { AccessPoint(i, "s1", "d1") @@ x : i \in Ids, x \in CallerTimestamps }
StampedUpdates == { (kDescription :> "d2") @@ x : x \in CallerTimestamps }
StampedBatches == [1..1 -> StampedRecords]

InitStamps ==
    /\ adapter \in Adapters
    /\ checkedOut = 0
    /\ store = EmptyMap
    /\ seen = {}
    /\ index = EmptyMap
    /\ now = 1
    /\ pc = [p \in Callers |-> "idle"]
    /\ op = [p \in Callers |-> NoOp]
    /\ tmp = [p \in Callers |-> NoTmp]
    /\ ret = [p \in Callers |-> NoRet]
    /\ log = [p \in Callers |-> << >>]
    /\ pre = [p \in Callers |-> NoPre]
    /\ resynced = FALSE

\* the adapter call settles to res with the table now s
StampSettled(p, call, s, res) ==
    /\ pc[p] = "idle"
    /\ store' = s
    /\ seen' = seen \cup DOMAIN s
    /\ op' = [op EXCEPT ![p] = call]
    /\ ret' = [ret EXCEPT ![p] = res]
    /\ pre' = [pre EXCEPT ![p] = [store |-> store, index |-> index, resynced |-> FALSE]]
    /\ pc' = [pc EXCEPT ![p] = "done"]
    /\ UNCHANGED <<adapter, checkedOut, index, now, tmp, log, resynced>>

\* createAccessPoint(accessPoint) of the store adapter
StampCreate(p) ==
    \E accessPoint \in StampedRecords, ok \in BOOLEAN :
        LET r == StoreCreate(adapter, store, accessPoint, Stamp(now), ok)
        IN StampSettled(p, [accessPoint |-> accessPoint, name |-> "create"], r.store, r.res)

\* updateAccessPoint(id, updates) of the store adapter
StampUpdate(p) ==
    \E id \in Ids, updates \in StampedUpdates, ok \in BOOLEAN :
        LET r == StoreUpdate(adapter, store, id, updates, Stamp(now), ok)
        IN StampSettled(p, [id |-> id, updates |-> updates, name |-> "update"],
                        r.store, r.res)

\* bulkInsertAccessPoints(accessPoints) of the store adapter
StampBulkInsert(p) ==
    \E accessPoints \in StampedBatches,
       failAt \in BulkFailures(adapter), rollbackOk \in BulkRollbacks(adapter) :
        LET r == StoreBulkInsert(adapter, store, accessPoints, Stamp(now),
                                 failAt, rollbackOk)
        IN StampSettled(p, [accessPoints |-> accessPoints, name |-> "bulkInsert"],
                        r.store, r.res)

\* time passes between two calls
Tick ==
    /\ now <= MaxClock
    /\ now' = now + 1
    /\ UNCHANGED <<adapter, checkedOut, store, seen, index, pc, op, tmp, ret, log, pre,
                   resynced>>

NextStamps ==
    \/ \E p \in {"c1"} :
          \/ StampCreate(p)
          \/ StampUpdate(p)
          \/ StampBulkInsert(p)
          \/ Return(p)
    \/ Tick

SpecStamps == InitStamps /\ [][NextStamps]_vars

(***************************************************************************)
(* Two callers updating one record: the awaits of their updateAccessPoint  *)
(* calls interleave.                                                       *)
(***************************************************************************)
\* the updates each caller passes for id "a"
OverlapUpdates(p) ==
    IF p = "c1" THEN { (kDescription :> "d2") }
    ELSE { (kDescription :> "d1"), (kSubnetID :> "s2") }

OverlapUpdate(p) ==
    \E updates \in OverlapUpdates(p) :
        Invoke(p, [id |-> "a", updates |-> updates, name |-> "update"], "update.store", NoTmp)

NextOverlap ==
    \E p \in Callers :
        \/ RaceCreate(p)
        \/ OverlapUpdate(p)
        \/ CreateStore(p) \/ CreateIndex(p) \/ CreateRollback(p)
        \/ UpdateStore(p) \/ UpdateIndex(p)
        \/ Return(p)

SpecOverlap == Init /\ [][NextOverlap]_vars

(***************************************************************************)
(* console.error: the lines a call has written, as a function of the       *)
(* adapter calls it has issued and of how they settled.  Logging changes   *)
(* no state and takes no branch.                                           *)
(***************************************************************************)
\* the line an adapter method writes when its call settles as entry e.  The
\* methods of PineconeOperations and SupabaseOperations write one on every
\* failure.  DatabaseOperations writes one in its catch blocks only: get and
\* delete return "not found" without a line (so does its update, which is
\* counted here as writing one, its entry not telling "not found" from a
\* statement the table refused).
AdapterConsole(a, e) ==
    IF e.ok THEN {}
    ELSE IF a = "DatabaseOperations" /\ e.call \in {"store.get", "store.delete"}
            /\ e.fault = "none"
    THEN {}
    ELSE CASE e.call = "store.create" -> {"Error creating access point"}
           [] e.call = "store.update" -> {"Error updating access point"}
           [] e.call = "store.get" -> {"Error getting access point"}
           [] e.call = "store.getAll" -> {"Error getting all access points"}
           [] e.call = "store.delete" -> {"Error deleting access point"}
           [] e.call = "store.search" -> {"Error searching access points"}
           [] e.call = "store.bulkInsert" -> {"Error bulk inserting access points"}
           [] e.call = "index.upsert" -> {"Error upserting to Pinecone"}
           [] e.call = "index.delete" -> {"Error deleting from Pinecone"}
           [] e.call = "index.bulkUpsert" -> {"Error bulk upserting to Pinecone"}
           [] e.call = "index.query" -> {"Error searching Pinecone"}
           [] OTHER -> {}

\* the lines DataSyncManager itself has written in p's call
CoordinatorConsole(p) ==
    LET failed(call) == { i \in DOMAIN log[p] : log[p][i].call = call /\ ~log[p][i].ok }
    IN CASE op[p].name = "update" ->
              IF failed("index.upsert") # {}
              THEN {"Failed to update Pinecone, but Supabase was updated successfully"}
              ELSE {}
         [] op[p].name = "delete" /\ pc[p] = "done" ->
              (IF failed("store.delete") # {} /\ failed("index.delete") = {}
               THEN {"Failed to delete from Supabase but succeeded in Pinecone"} ELSE {})
              \cup
              (IF failed("index.delete") # {} /\ failed("store.delete") = {}
               THEN {"Failed to delete from Pinecone but succeeded in Supabase"} ELSE {})
         [] op[p].name = "bulkSync" ->
              (IF failed("store.bulkInsert") # {}
               THEN {"Failed to bulk sync to Supabase"} ELSE {})
              \cup
              (IF failed("index.bulkUpsert") # {}
               THEN {"Failed to bulk sync to Pinecone, but Supabase sync succeeded"}
               ELSE {})
              \cup
              (IF Cardinality(failed("index.bulkUpsert")) = 2
               THEN {"Retry failed. Please run syncSupabaseToPinecone later to ensure consistency."}
               ELSE {})
         [] OTHER -> {}

\* every line written during p's call
Console(p) ==
    CoordinatorConsole(p) \cup UNION { AdapterConsole(adapter, log[p][i]) : i \in DOMAIN log[p] }

(***************************************************************************)
(* toSnakeCase on one property: the key it writes for a property that has  *)
(* a value, and the key it writes for the same property without one.       *)
(***************************************************************************)
\* the key the loop body of toSnakeCase writes for property key with value
SnakeKeyFor(key, value) ==
    IF value = Null \/ value = Undef THEN toLowerCase(key) ELSE SnakeKey(key)

InitSnake ==
    /\ adapter \in Adapters
    /\ checkedOut = 0
    /\ store = EmptyMap
    /\ seen = {}
    /\ index = EmptyMap
    /\ now = 1
    /\ \E key \in FieldNames \cup OtherKeys :
          op = [p \in Callers |-> IF p = "c1" THEN [key |-> key, name |-> "toSnakeCase"]
                                  ELSE NoOp]
    /\ pc = [p \in Callers |-> IF p = "c1" THEN "snake.value" ELSE "idle"]
    /\ tmp = [p \in Callers |-> NoTmp]
    /\ ret = [p \in Callers |-> NoRet]
    /\ log = [p \in Callers |-> << >>]
    /\ pre = [p \in Callers |-> NoPre]
    /\ resynced = FALSE

\* toSnakeCase({[key]: value}) with a value
SnakeWithValue(p) ==
    /\ pc[p] = "snake.value"
    /\ \E value \in Descs :
          tmp' = [tmp EXCEPT ![p] = [snakeKey |-> SnakeKeyFor(op[p].key, value)]]
    /\ pc' = [pc EXCEPT ![p] = "snake.null"]
    /\ UNCHANGED <<adapter, checkedOut, store, seen, index, now, op, ret, log, pre, resynced>>

\* toSnakeCase({[key]: null}) and toSnakeCase({[key]: undefined})
SnakeWithoutValue(p) ==
    /\ pc[p] = "snake.null"
    /\ \E value \in {Null, Undef} :
          /\ ret' = [ret EXCEPT ![p] = [snakeKey |-> SnakeKeyFor(op[p].key, value)]]
          /\ log' = [log EXCEPT ![p] = << value >>]
    /\ pc' = [pc EXCEPT ![p] = "done"]
    /\ UNCHANGED <<adapter, checkedOut, store, seen, index, now, op, tmp, pre, resynced>>

NextSnake == \E p \in {"c1"} : SnakeWithValue(p) \/ SnakeWithoutValue(p)

SpecSnake == InitSnake /\ [][NextSnake]_vars

(***************************************************************************)
(* Two callers on one id, every backend call going through: the awaits of  *)
(* create, update and delete interleave, and no adapter call settles to a  *)
(* failure.                                                                *)
(***************************************************************************)
\* the step logs no adapter call that failed
CleanStep ==
    \A p \in Callers :
        \A i \in DOMAIN log'[p] : log'[p][i].ok /\ log'[p][i].fault = "none"

NextClean ==
    \E p \in Callers :
        \/ RaceCreate(p)
        \/ RaceUpdate(p)
        \/ RaceDelete(p)
        \/ CreateStore(p) /\ CleanStep
        \/ CreateIndex(p) /\ CleanStep
        \/ UpdateStore(p) /\ CleanStep
        \/ UpdateIndex(p) /\ CleanStep
        \/ DeleteStore(p) /\ CleanStep
        \/ DeleteIndex(p) /\ CleanStep
        \/ DeleteSettled(p)
        \/ Return(p)

SpecClean == Init /\ [][NextClean]_vars

(***************************************************************************)
(* Properties                                                              *)
(***************************************************************************)
\* caller p's call of method name has resolved and was not yet taken
Done(p, name) == pc[p] = "done" /\ op[p].name = name

\* the adapter calls of p's call so far that went to call
CallsTo(p, call) == { i \in DOMAIN log[p] : log[p][i].call = call }

\* record rec is in table s: a row with its id carries each of its fields
Persisted(s, rec) ==
    /\ rec[kId] \in DOMAIN s
    /\ \A k \in DOMAIN rec : s[rec[kId]][SnakeKeys[k]] = rec[k]

\* the entry the index adapter writes for the row of id in table s
Projection(s, id) == VectorData(toCamelCase(s[id]))

\* p's create failed on the index after its store insert went through
CreateIndexFailed(p) ==
    /\ Done(p, "create")
    /\ Len(log[p]) >= 2
    /\ log[p][1].ok
    /\ ~log[p][2].ok

\* C1: whenever createAccessPoint returns failure because the index upsert
\* failed after the store create succeeded, a get of the record's id on the
\* store returns not found.
C1_CreateRollback ==
    \A p \in Callers :
        CreateIndexFailed(p) =>
            StoreGet(adapter, store, op[p].accessPoint[kId], TRUE)
                = Fail("Access point not found")

\* the two backends after p's create / update / delete show the operation
Reflected(p) ==
    CASE op[p].name = "create" ->
            /\ Persisted(store, op[p].accessPoint)
            /\ op[p].accessPoint[kId] \in DOMAIN index
            /\ index[op[p].accessPoint[kId]] = VectorData(op[p].accessPoint)
      [] op[p].name = "update" ->
            /\ op[p].id \in DOMAIN store
            /\ \A k \in DOMAIN op[p].updates :
                  store[op[p].id][SnakeKeys[k]] = op[p].updates[k]
            /\ op[p].id \in DOMAIN index
            /\ index[op[p].id] = Projection(store, op[p].id)
      [] op[p].name = "delete" ->
            /\ op[p].id \notin DOMAIN store
            /\ op[p].id \notin DOMAIN index

\* C2: every coordinator create, update or delete is all-or-nothing across
\* the two backends: once the call has returned, either the store and the
\* index both reflect the operation or both are as they were before it.
C2_AllOrNothing ==
    \A p \in Callers :
        (pc[p] = "done" /\ op[p].name \in {"create", "update", "delete"}) =>
            \/ Reflected(p)
            \/ (store = pre[p].store /\ index = pre[p].index)

\* C3: deleteAccessPoint reports success if and only if at least one of the
\* store delete and the index delete succeeded; both deletes are issued.
C3_DeleteTolerance ==
    \A p \in Callers :
        Done(p, "delete") =>
            /\ Cardinality(CallsTo(p, "store.delete")) = 1
            /\ Cardinality(CallsTo(p, "index.delete")) = 1
            /\ ret[p].success <=> (\E i \in DOMAIN log[p] : log[p][i].ok)

\* a delete in which exactly one side failed has resolved
C3_Witness ==
    \E p \in Callers :
        /\ Done(p, "delete")
        /\ ret[p].success
        /\ \E i, j \in DOMAIN log[p] : log[p][i].ok /\ ~log[p][j].ok

\* p's update has had its index upsert fail after the store update succeeded
UpdateIndexFailed(p) ==
    /\ op[p].name = "update"
    /\ Len(log[p]) >= 2
    /\ log[p][1].ok
    /\ ~log[p][2].ok

\* C4: if the store update succeeds and the index upsert then fails,
\* updateAccessPoint returns the store's success envelope, issues no further
\* adapter call (no compensating store write), and a get on the store returns
\* the updated record, each updated column holding the new value.
C4_UpdateAsymmetry ==
    \A p \in Callers :
        UpdateIndexFailed(p) =>
            /\ pc[p] = "done"
            /\ Len(log[p]) = 2
            /\ ret[p].success
            /\ op[p].id \in DOMAIN store
            /\ ret[p] = Ok(toCamelCase(store[op[p].id]))
            /\ StoreGet(adapter, store, op[p].id, TRUE) = ret[p]
            /\ \A k \in DOMAIN op[p].updates :
                  store[op[p].id][SnakeKeys[k]] = op[p].updates[k]

\* an update that changed the row has resolved after its index upsert failed
C4_Witness ==
    \E p \in Callers :
        /\ UpdateIndexFailed(p)
        /\ pc[p] = "done"
        /\ store # pre[p].store

\* C5: a resyncFromStore() that reports success leaves the index consistent
\* with the store: the ids of the index are the ids of the store and every
\* index entry is the projection of the store's record.
C5_ResyncRecovers ==
    \A p \in Callers :
        (Done(p, "resync") /\ ret[p].success) =>
            /\ DOMAIN index = DOMAIN store
            /\ \A id \in DOMAIN index : index[id] = Projection(store, id)

\* C6: a successful resync that directly follows a successful resync, the
\* store unchanged in between, leaves the index as the first one left it.
C6_ResyncIdempotent ==
    \A p \in Callers :
        (Done(p, "resync") /\ ret[p].success /\ pre[p].resynced) =>
            /\ store = pre[p].store
            /\ index = pre[p].index

\* a second successful resync in a row that upserted records has resolved
C6_Witness ==
    \E p \in Callers :
        /\ Done(p, "resync")
        /\ ret[p].success
        /\ pre[p].resynced
        /\ CallsTo(p, "index.bulkUpsert") # {}
        /\ Cardinality(DOMAIN index) = Cardinality(Ids)

\* C7: one bulkSyncAccessPoints call invokes the index bulk upsert a second
\* time if and only if the first invocation failed, and never a third time;
\* it reports failure if both invocations fail and success if either succeeds.
C7_RetryOnce ==
    \A p \in Callers :
        op[p].name = "bulkSync" =>
            LET attempts == CallsTo(p, "index.bulkUpsert")
            IN /\ Cardinality(attempts) <= 2
               /\ attempts \subseteq {2, 3}
               /\ pc[p] = "done" =>
                    /\ 3 \in attempts <=> (2 \in attempts /\ ~log[p][2].ok)
                    /\ attempts # {} =>
                          (ret[p].success <=> \E i \in attempts : log[p][i].ok)

\* a bulkSync whose first index attempt failed and whose retry succeeded
C7_Witness ==
    \E p \in Callers :
        /\ Done(p, "bulkSync")
        /\ Len(log[p]) = 3
        /\ ~log[p][2].ok
        /\ log[p][3].ok
        /\ ret[p].success

\* p's bulkSync has had its store bulk upsert fail
BulkStoreFailed(p) ==
    /\ op[p].name = "bulkSync"
    /\ Len(log[p]) >= 1
    /\ ~log[p][1].ok

\* C8: if the store bulk upsert fails, bulkSyncAccessPoints returns failure
\* without issuing any index call, so the index is unchanged.
C8_BulkAbortsOnStoreFailure ==
    \A p \in Callers :
        BulkStoreFailed(p) =>
            /\ pc[p] = "done"
            /\ ~ret[p].success
            /\ Len(log[p]) = 1
            /\ index = pre[p].index

\* a bulkSync of records the index does not hold failed on the store
C8_Witness ==
    \E p \in Callers :
        /\ BulkStoreFailed(p)
        /\ pc[p] = "done"
        /\ Len(op[p].accessPoints) > 1
        /\ \A i \in DOMAIN op[p].accessPoints :
              op[p].accessPoints[i][kId] \notin DOMAIN index

RetryFailure == Fail("Failed to sync to Pinecone after retry. Supabase sync was successful.")

\* C9: whenever bulkSyncAccessPoints returns the failure 'Failed to sync to
\* Pinecone after retry. Supabase sync was successful.', every record of the
\* batch is in the store, and the index holds the entries it held before plus
\* those of a proper prefix of the batch's chunks.
C9_RetryFailureStoreSynced ==
    \A p \in Callers :
        (Done(p, "bulkSync") /\ ret[p] = RetryFailure) =>
            LET batch == op[p].accessPoints
                vectorsData == [i \in DOMAIN batch |-> VectorData(batch[i])]
            IN /\ \A i \in DOMAIN batch : Persisted(store, batch[i])
               /\ \E k \in 0..(NumChunks(Len(batch)) - 1) :
                     index = UpsertChunks(pre[p].index, vectorsData, k)

\* a bulkSync of a full batch of new records failed on the index twice
C9_Witness ==
    \E p \in Callers :
        /\ Done(p, "bulkSync")
        /\ ret[p] = RetryFailure
        /\ Len(op[p].accessPoints) > 1
        /\ \A i \in DOMAIN op[p].accessPoints :
              op[p].accessPoints[i][kId] \notin DOMAIN pre[p].store

\* C10: for every batch passed to bulkInsertAccessPoints of either store
\* adapter, either every row of the batch is persisted or none is: when the
\* call succeeds every record of the batch is in the table, and when any
\* request or statement of it (COMMIT included) fails the table is as it
\* was before the call.
C10_BulkAtomic ==
    \A p \in Callers :
        (op[p].name = "bulkSync" /\ Len(log[p]) >= 1) =>
            IF log[p][1].ok
            THEN \A i \in DOMAIN op[p].accessPoints :
                    Persisted(store, op[p].accessPoints[i])
            ELSE store = pre[p].store

\* the transaction of DatabaseOperations failed at COMMIT for a full batch of
\* valid new records
C10_Witness ==
    \E p \in Callers :
        /\ op[p].name = "bulkSync"
        /\ adapter = "DatabaseOperations"
        /\ Len(log[p]) >= 1
        /\ log[p][1].fault = "COMMIT"
        /\ Len(op[p].accessPoints) > 1
        /\ \A i \in DOMAIN op[p].accessPoints :
              /\ op[p].accessPoints[i][kDescription] # Null
              /\ op[p].accessPoints[i][kId] \notin DOMAIN pre[p].store
        /\ \A i, j \in DOMAIN op[p].accessPoints :
              i # j => op[p].accessPoints[i][kId] # op[p].accessPoints[j][kId]

\* p's create has had its store insert fail
CreateStoreFailed(p) ==
    /\ op[p].name = "create"
    /\ Len(log[p]) >= 1
    /\ ~log[p][1].ok

\* C11: if the store create fails, createAccessPoint returns that failure
\* at once: the store create is its only adapter call (no index upsert, no
\* compensating delete), and the store and the index are as before the call.
C11_CreateStoreFailure ==
    \A p \in Callers :
        CreateStoreFailed(p) =>
            /\ pc[p] = "done"
            /\ Len(log[p]) = 1
            /\ ~ret[p].success
            /\ ret[p] = StoreCreate(adapter, pre[p].store, op[p].accessPoint,
                                    Stamp(now), log[p][1].fault = "none").res
            /\ store = pre[p].store
            /\ index = pre[p].index

\* a create of a valid record whose id the table already holds has failed on
\* the store (conflict) while the index held entries
C11_Witness ==
    \E p \in Callers :
        /\ CreateStoreFailed(p)
        /\ pc[p] = "done"
        /\ log[p][1].fault = "none"
        /\ op[p].accessPoint[kId] \in DOMAIN pre[p].store
        /\ op[p].accessPoint[kDescription] # Null
        /\ index # EmptyMap

\* every backend request of p's call so far went through
Clean(p) == \A i \in DOMAIN log[p] : log[p][i].fault = "none"

\* C12: searchAccessPoints calls the index similarity query first and once;
\* the store text search is called if and only if that call returned failure,
\* and then the result is exactly the store text search's result for the
\* same query; if the index call succeeded (even with no match) the store
\* text search is not called.
C12_SearchFallback ==
    \A p \in Callers :
        op[p].name = "search" =>
            /\ CallsTo(p, "index.query") \subseteq {1}
            /\ CallsTo(p, "store.search") \subseteq {2}
            /\ Len(log[p]) >= 1 => log[p][1].call = "index.query"
            /\ Len(log[p]) >= 2 => (log[p][2].call = "store.search" <=> ~log[p][1].ok)
            /\ pc[p] = "done" =>
                 IF log[p][1].ok
                 THEN CallsTo(p, "store.search") = {}
                 ELSE /\ Len(log[p]) = 2
                      /\ \E order \in SelectAllOrders(MatchingRows(store, op[p].query)) :
                            ret[p] = StoreSearch(adapter, store, op[p].query, order,
                                                 log[p][2].fault = "none")

\* a search whose index query failed has returned the answer of the store's
\* text search, with records in the store
C12_Witness ==
    \E p \in Callers :
        /\ Done(p, "search")
        /\ ~log[p][1].ok
        /\ Len(log[p]) = 2
        /\ log[p][2].call = "store.search"
        /\ store # EmptyMap

\* the records of ids, in order, that the gets logged from position k + 1 on
\* resolved from table s: ids[k] is kept when its request went through and
\* the table holds the id
RECURSIVE ResolvedFrom(_, _, _, _)
ResolvedFrom(s, ids, entries, k) ==
    IF k > Len(ids) THEN << >>
    ELSE IF entries[k + 1].fault = "none" /\ ids[k] \in DOMAIN s
    THEN << toCamelCase(s[ids[k]]) >> \o ResolvedFrom(s, ids, entries, k + 1)
    ELSE ResolvedFrom(s, ids, entries, k + 1)

\* C13: when the index query succeeds, the search issues one store get per
\* ranked id and returns success with the records of the ids the store
\* resolved, in the order of the ranking, each the store's current record;
\* an id the store does not resolve is skipped.
C13_SearchRanking ==
    \A p \in Callers :
        (Done(p, "search") /\ log[p][1].ok) =>
            LET ids == log[p][1].ids
            IN /\ Len(log[p]) = 1 + Len(ids)
               /\ \A k \in 1..Len(ids) : log[p][k + 1].call = "store.get"
               /\ ret[p] = Ok(ResolvedFrom(store, ids, log[p], 1))
               /\ \A i \in DOMAIN ret[p].data :
                     StoreGet(adapter, store, ret[p].data[i][kId], TRUE) = Ok(ret[p].data[i])

\* a search over two ranked ids has returned the second alone: the store
\* holds no row of the first
C13_Witness ==
    \E p \in Callers :
        /\ Done(p, "search")
        /\ log[p][1].ok
        /\ Len(log[p][1].ids) = 2
        /\ log[p][1].ids[1] \notin DOMAIN store
        /\ ret[p].success
        /\ Len(ret[p].data) = 1
        /\ ret[p].data[1][kId] = log[p][1].ids[2]

\* C17: healthCheck returns a pair of booleans; supabase is true iff the
\* store probe resolved with success and pinecone is true iff the index
\* probe resolved with success, each whatever the other probe did.
C17_HealthCheck ==
    \A p \in Callers :
        Done(p, "healthCheck") =>
            /\ DOMAIN ret[p] = {"supabase", "pinecone"}
            /\ ret[p].supabase \in BOOLEAN
            /\ ret[p].pinecone \in BOOLEAN
            /\ Cardinality(CallsTo(p, "store.getAll")) = 1
            /\ Cardinality(CallsTo(p, "index.query")) = 1
            /\ ret[p].supabase <=> \A i \in CallsTo(p, "store.getAll") : log[p][i].ok
            /\ ret[p].pinecone <=> \A i \in CallsTo(p, "index.query") : log[p][i].ok

\* a health check has returned with the store up and the index down
C17_Witness ==
    \E p \in Callers :
        /\ Done(p, "healthCheck")
        /\ ret[p].supabase
        /\ ~ret[p].pinecone
        /\ \E i \in CallsTo(p, "index.query") : ~log[p][i].ok

\* C14: for each of the two store adapters, deleteAccessPoint(id) on an id
\* that is not in the table returns a failure envelope.
C14_DeleteAbsentFails ==
    \A p \in Callers :
        (op[p].name = "delete" /\ op[p].id \notin DOMAIN pre[p].store) =>
            \A i \in CallsTo(p, "store.delete") : ~log[p][i].ok

\* p's update has had both its adapter calls succeed
UpdateSucceeded(p) ==
    /\ Done(p, "update")
    /\ Len(log[p]) = 2
    /\ log[p][1].ok
    /\ log[p][2].ok

\* C16: after a fully successful updateAccessPoint(id, updates) the index
\* entry of id is the projection of the record the store update returned;
\* that record is the row as stored, in which every column the updates do
\* not name (updated_at apart) keeps the value it had before the call.
C16_UpdateFeedsMergedRecord ==
    \A p \in Callers :
        UpdateSucceeded(p) =>
            LET id == op[p].id
                named == {SnakeKeys[k] : k \in DOMAIN op[p].updates}
            IN /\ id \in DOMAIN index
               /\ index[id] = VectorData(ret[p].data)
               /\ ret[p].data = toCamelCase(store[id])
               /\ \A c \in Columns \ (named \cup {cUpdatedAt}) :
                     store[id][c] = pre[p].store[id][c]
               /\ \A k \in DOMAIN op[p].updates :
                     store[id][SnakeKeys[k]] = op[p].updates[k]
               /\ index[id].metadata.id = id
               /\ index[id].metadata.description = store[id][cDescription]

\* an update of subnetID alone has succeeded on a record whose index entry
\* carried another description: the entry now carries the stored description,
\* which the partial input does not name
C16_Witness ==
    \E p \in Callers :
        /\ UpdateSucceeded(p)
        /\ DOMAIN op[p].updates = {kSubnetID}
        /\ op[p].id \in DOMAIN pre[p].index
        /\ pre[p].index[op[p].id].metadata.description # store[op[p].id][cDescription]
        /\ index[op[p].id].metadata.description = store[op[p].id][cDescription]

\* the two backends hold the record of id x and nothing else
HoldOnly(s, idx, x) == DOMAIN s = {x} /\ DOMAIN idx = {x}

\* a value that is a non-empty string
NonEmpty(v) == v \notin {Null, Undef, ""}

C18_FieldNameRoundTrip ==
    \A p \in Callers :
        (Done(p, "convert") /\ op[p].key \in FieldNames) =>
            ret[p].camelKey = op[p].key


C19_WitnessEmpty ==
    \E p \in Callers :
        /\ Done(p, "embed")
        /\ op[p].text = << >>
        /\ \A j \in 1..EMBEDDING_DIMENSION : ret[p].vector[j] = 0


\* C15: in every reachable state, whatever the interleaving of the calls and
\* whatever backend requests fail, every id with an entry in the index is an
\* id the table held at some earlier or at the current point.
C15_IndexProvenance == DOMAIN index \subseteq seen

\* a create and a delete of the same id, both succeeded with no request
\* failed, have left the id in the index and not in the table: the delete ran
\* between the create's store insert and its index upsert
C15_Witness ==
    /\ Done("c1", "create") /\ ret["c1"].success /\ Clean("c1")
    /\ Done("c2", "delete") /\ ret["c2"].success /\ Clean("c2")
    /\ "a" \in DOMAIN index
    /\ "a" \notin DOMAIN store
    /\ "a" \in seen


\* C29: every component of the hash-based embedding lies in [-1, 1], for
\* every text and every value the hash takes, negative ones included
\* (components are numerators over 1000).
C29_EmbeddingRange ==
    \A p \in Callers :
        Done(p, "embed") =>
            \A j \in 1..EMBEDDING_DIMENSION :
                /\ ret[p].vector[j] >= -1000
                /\ ret[p].vector[j] <= 1000


\* hash * 31 + char wrapped to a signed 32-bit integer
Times31Wrapped(hash, char) ==
    LET l == Lo(hash) * 31 + char
        h == Hi(hash) * 31 + l \div 65536
    IN  Int32(h % 65536, l % 65536)

\* the last of the positions 1..n (1-based) that is written to slot j
LastAt(j, n) == j + EMBEDDING_DIMENSION * ((n - j) \div EMBEDDING_DIMENSION)

\* the vector after passes with the hashes hs
SlotsOf(hs) ==
    [j \in 1..EMBEDDING_DIMENSION |->
        IF j <= Len(hs) THEN JsRem(hs[LastAt(j, Len(hs))], 2000) - 1000 ELSE 0]

\* C30: at every pass the hash the code computes as ((hash << 5) - hash) +
\* charCode followed by |0 equals hash * 31 + charCode wrapped to a signed
\* 32-bit integer, and the value of position i is written to slot i mod D:
\* later positions overwrite earlier ones, untouched slots stay 0.
C30_RollingHash ==
    \A p \in Callers :
        op[p].name = "hash" =>
            /\ \A k \in DOMAIN log[p] :
                  log[p][k] = Times31Wrapped(IF k = 1 THEN 0 ELSE log[p][k - 1],
                                             op[p].text[k])
            /\ pc[p] = "hash.loop" => tmp[p].st.vector = SlotsOf(log[p])
            /\ pc[p] = "done" => ret[p].vector = SlotsOf(log[p])

\* the text is longer than the vector, the hash has wrapped below zero, and
\* the last position has overwritten the first slot
C30_Witness ==
    \E p \in Callers :
        /\ Done(p, "hash")
        /\ Len(log[p]) > EMBEDDING_DIMENSION
        /\ \E k \in DOMAIN log[p] : log[p][k] < 0
        /\ ret[p].vector[1] = JsRem(log[p][Len(log[p])], 2000) - 1000
        /\ ret[p].vector[1] # JsRem(log[p][1], 2000) - 1000


\* the concatenation of the first n chunks of vectorsData
RECURSIVE ChunksJoined(_, _)
ChunksJoined(vectorsData, n) ==
    IF n = 0 THEN << >>
    ELSE ChunksJoined(vectorsData, n - 1) \o Chunk(vectorsData, n)

\* the index idx with the entries of the first m records of a batch with
\* the ids 1, 2, .. written over it
WithFirst(idx, accessPoints, m) ==
    [i \in DOMAIN idx \cup 1..m |->
        IF i \in 1..m THEN VectorData(accessPoints[i]) ELSE idx[i]]

\* C28: bulkUpsertAccessPoints sends the vectors as consecutive chunks of at
\* most 100 in input order, every record in exactly one chunk; if the upsert
\* of chunk k fails, the chunks before k stay committed, chunk k and the
\* later chunks are not written, and the call returns failure.
C28_BulkUpsertChunks ==
    \A p \in Callers :
        Done(p, "bulkUpsert") =>
            LET accessPoints == op[p].accessPoints
                vectorsData == [i \in DOMAIN accessPoints |-> VectorData(accessPoints[i])]
                n == Len(accessPoints)
                failAt == log[p][1]
                written == IF failAt = 0 THEN n ELSE (failAt - 1) * 100
            IN  /\ \A k \in 1..NumChunks(n) :
                      Len(Chunk(vectorsData, k)) \in 1..100
                /\ ChunksJoined(vectorsData, NumChunks(n)) = vectorsData
                /\ index = WithFirst(pre[p].index, accessPoints, written)
                /\ ret[p].success = (failAt = 0)

\* a batch of more than two chunks whose second request failed: the first
\* hundred are in the index, the older entry of record 101 is still there,
\* record 201 is absent
C28_Witness ==
    \E p \in Callers :
        /\ Done(p, "bulkUpsert")
        /\ Len(op[p].accessPoints) > 2 * chunkSize
        /\ log[p][1] = 2
        /\ ~ret[p].success
        /\ index[chunkSize] = VectorData(op[p].accessPoints[chunkSize])
        /\ (chunkSize + 1) \in DOMAIN pre[p].index
        /\ index[chunkSize + 1] = pre[p].index[chunkSize + 1]
        /\ index[chunkSize + 1] # VectorData(op[p].accessPoints[chunkSize + 1])
        /\ (2 * chunkSize + 1) \notin DOMAIN index


\* C27: in every deleteAccessPoint call the store delete and the index delete
\* are each issued whatever the other has settled to, neither waits for the
\* other, and the call resolves only when both have settled.
C27_DeleteIndependent ==
    /\ [](\A p \in Callers :
            (pc[p] = "delete.settle" /\ op[p].name = "delete") =>
                /\ tmp[p].supabaseResult = Pending => ENABLED DeleteStore(p)
                /\ tmp[p].pineconeResult = Pending => ENABLED DeleteIndex(p))
    /\ [][\A p \in Callers :
            (pc[p] = "delete.settle" /\ pc'[p] = "done") =>
                /\ tmp[p].supabaseResult.status = "fulfilled"
                /\ tmp[p].pineconeResult.status = "fulfilled"
                /\ CallsTo(p, "store.delete") # {}
                /\ CallsTo(p, "index.delete") # {}]_vars

\* a delete has resolved whose first settled side failed, whichever side that
\* was, and whose other side was issued all the same
C27_Witness ==
    \E p \in Callers :
        /\ Done(p, "delete")
        /\ Len(log[p]) = 2
        /\ log[p][1].call = "store.delete"
        /\ ~log[p][1].ok
        /\ log[p][2].call = "index.delete"


\* C21 (as stated): every method of DatabaseOperations settles to an envelope,
\* whichever of connect, BEGIN, the query, COMMIT and ROLLBACK fails; its
\* promise is never rejected.
C21_AdaptersNeverReject ==
    \A p \in Callers : pc[p] = "done" => ~IsRejected(ret[p])

\* the clients checked out of the pool are those of the calls between a
\* connect that went through and the finally block
HoldsClient(p) ==
    pc[p] \in {"db.query", "db.begin", "db.insert", "db.commit", "db.rollback", "db.release"}
        /\ tmp[p].client

\* C23: every client a DatabaseOperations method acquired is released exactly
\* once on each exit path, so the number of checked-out clients is the number
\* of calls in progress that hold one, and is zero when no call is in progress.
C23_NoConnectionLeak ==
    /\ checkedOut = Cardinality({ p \in Callers : HoldsClient(p) })
    /\ \A p \in Callers :
          pc[p] \in {"db.query", "db.begin", "db.insert", "db.commit", "db.rollback"}
              => tmp[p].client
    /\ (\A p \in Callers : pc[p] \in {"idle", "done"}) => checkedOut = 0

\* a bulk insert whose ROLLBACK threw has settled, another call has settled
\* with "not found", and no client is checked out
C23_Witness ==
    /\ checkedOut = 0
    /\ \E p, q \in Callers :
          /\ pc[p] = "done" /\ op[p].name = "bulkInsert" /\ IsRejected(ret[p])
          /\ pc[q] = "done" /\ op[q].name \in {"update", "delete", "get"}
          /\ ~ret[q].success /\ ret[q].error = "Access point not found"


\* C26 (as stated): no createdAt or updatedAt value a caller supplied in the
\* input of create, update or a bulk insert is ever persisted: both timestamps
\* of every row are readings of the clock taken by the adapter.
C26_TimestampsStoreAssigned ==
    \A i \in DOMAIN store :
        /\ store[i][cCreatedAt] \in { Stamp(n) : n \in 1..now }
        /\ store[i][cUpdatedAt] \in { Stamp(n) : n \in 1..now }


\* C24: updateAccessPoint calls on one id are not serialised: when two of them
\* have resolved with no backend call failing, the store holds the record
\* returned to one of them and the index the projection of the record
\* returned to one of them, each backend keeping its own last writer; the two
\* need not be the same call.
C24_LastWriterPerBackend ==
    (\A p \in Callers : UpdateSucceeded(p) /\ log[p][1].fault = "none"
                                           /\ log[p][2].fault = "none") =>
        /\ \E p \in Callers : ret[p].data = toCamelCase(store["a"])
        /\ \E p \in Callers : index["a"] = VectorData(ret[p].data)

\* two overlapping updates of id "a" have resolved, no backend call failed,
\* and the index entry is the projection of the record of the call that
\* wrote the store first, which differs from the stored record
C24_Witness ==
    /\ \A p \in Callers : UpdateSucceeded(p) /\ log[p][1].fault = "none"
                                             /\ log[p][2].fault = "none"
    /\ \E p \in Callers :
          /\ index["a"] = VectorData(ret[p].data)
          /\ ret[p].data # toCamelCase(store["a"])
    /\ index["a"] # Projection(store, "a")


\* C25 (as stated): a coordinator call that reports success although one of
\* its adapter calls failed has written an error line before it returns, and
\* a create whose compensating delete failed has written one about the delete.
C25_DriftLogged ==
    \A p \in Callers :
        /\ (pc[p] = "done" /\ op[p].name # "healthCheck" /\ ret[p].success
                /\ \E i \in DOMAIN log[p] : ~log[p][i].ok)
              => Console(p) # {}
        /\ (Done(p, "create") /\ Len(log[p]) = 3 /\ ~log[p][3].ok)
              => AdapterConsole(adapter, log[p][3]) \cup CoordinatorConsole(p) # {}


\* r is an APIResponse: success, and nothing besides data and error; a failure
\* carries an error string
IsEnvelope(r) ==
    /\ "success" \in DOMAIN r
    /\ DOMAIN r \subseteq {"success", "data", "error"}
    /\ r.success \in BOOLEAN
    /\ ~r.success => ("error" \in DOMAIN r /\ r.error \in STRING /\ r.error # "")

\* C22: create, update, delete, get, getAll, search, bulkSync and the resync
\* each resolve to an envelope {success, data?, error?}, with an error string
\* whenever success is false, also when the adapter call returned a failure
\* envelope or rejected.
C22_UniformEnvelope ==
    \A p \in Callers :
        (pc[p] = "done" /\ op[p].name \in {"create", "update", "delete", "get", "getAll",
                                           "search", "bulkSync", "resync"})
            => IsEnvelope(ret[p])

\* a bulkSync has resolved to a failure envelope after the store's bulk insert
\* rejected (its ROLLBACK threw)
C22_Witness ==
    \E p \in Callers :
        /\ Done(p, "bulkSync")
        /\ Len(log[p]) = 1
        /\ log[p][1].fault # "none"
        /\ ~ret[p].success
        /\ ret[p].error = "Failed to bulk sync access points"


\* C31 (as stated): toSnakeCase writes the same key for a property whether
\* its value is null / undefined or a value.
C31_KeyIndependentOfValue ==
    \A p \in Callers :
        Done(p, "toSnakeCase") => ret[p].snakeKey = tmp[p].snakeKey


\* C32 (as stated): when no backend call fails, once the create, update and
\* delete calls issued on an id have all completed, the index has an entry
\* for the id if and only if the store has a row for it.
C32_CleanConvergence ==
    (\A p \in Callers : pc[p] \in {"idle", "done"}) => DOMAIN index = DOMAIN store


\* C33 (as stated): the compensating delete of a failed createAccessPoint
\* removes no row that another caller's bulkSync wrote for the same id after
\* the create's insert: when a bulkSync has reported success next to a create
\* that was rolled back, the rows of the bulkSync are in the store.
C33_RollbackOwnRow ==
    \A p, q \in Callers :
        ( /\ Done(p, "bulkSync") /\ ret[p].success
          /\ Done(q, "create") /\ Len(log[q]) = 3 /\ log[q][1].ok /\ log[q][3].ok )
        => \A i \in DOMAIN op[p].accessPoints :
              op[p].accessPoints[i][kId] \in DOMAIN store


\* the call that has just settled carries no createdAt of the caller's
NoCallerCreatedAt(call) ==
    CASE call.name = "update" -> kCreatedAt \notin DOMAIN call.updates
      [] call.name = "bulkInsert" ->
            \A i \in DOMAIN call.accessPoints : kCreatedAt \notin DOMAIN call.accessPoints[i]
      [] OTHER -> TRUE

\* C34 (as stated): the created_at of a row that is in the store does not
\* change through a later write to the same id, here an update or a bulk
\* insert of the store adapter whose input names no createdAt.
C34_CreatedAtStable ==
    [][\A p \in Callers :
          (pc[p] = "idle" /\ pc'[p] = "done" /\ NoCallerCreatedAt(op'[p])) =>
              \A i \in DOMAIN store \cap DOMAIN store' :
                  store'[i][cCreatedAt] = store[i][cCreatedAt]]_vars


C36_ResyncKeepsEntries ==
    \A p \in Callers :
        Done(p, "resync") =>
            /\ DOMAIN pre[p].index \subseteq DOMAIN index
            /\ \A id \in DOMAIN pre[p].index \ DOMAIN store : index[id] = pre[p].index[id]
            /\ (pre[p].store = EmptyMap /\ log[p][1].ok) =>
                  /\ ret[p].success
                  /\ Len(log[p]) = 1
                  /\ index = pre[p].index

\* a resync that upserted the rows of a non-empty store has resolved, and an
\* entry of an id the store does not hold is still in the index
C36_Witness ==
    \E p \in Callers :
        /\ Done(p, "resync")
        /\ ret[p].success
        /\ CallsTo(p, "index.bulkUpsert") # {}
        /\ \E id \in DOMAIN pre[p].index : id \notin DOMAIN store /\ id \in DOMAIN index


\* The adapter calls a method may have on record, in the order of its awaits
CallSequence(name) ==
    CASE name = "create" -> << "store.create", "index.upsert", "store.delete" >>
      [] name = "update" -> << "store.update", "index.upsert" >>
      [] name = "bulkSync" -> << "store.bulkInsert", "index.bulkUpsert", "index.bulkUpsert" >>
      [] name = "resync" -> << "store.getAll", "index.bulkUpsert" >>
      [] OTHER -> << >>

CallsBounded(p) ==
    LET calls == log[p]
        n == Len(calls)
    IN CASE op[p].name \in {"create", "update", "bulkSync", "resync"} ->
                /\ n <= Len(CallSequence(op[p].name))
                /\ \A i \in 1..n : calls[i].call = CallSequence(op[p].name)[i]
         [] op[p].name = "delete" ->
                /\ Cardinality(CallsTo(p, "store.delete")) <= 1
                /\ Cardinality(CallsTo(p, "index.delete")) <= 1
                /\ n = Cardinality(CallsTo(p, "store.delete") \cup CallsTo(p, "index.delete"))
                /\ pc[p] = "done" => n = 2
         [] op[p].name = "search" ->
                n > 0 =>
                    /\ calls[1].call = "index.query"
                    /\ \/ /\ n - 1 <= Len(calls[1].ids)
                          /\ \A i \in 2..n : calls[i].call = "store.get"
                       \/ /\ n = 2
                          /\ calls[2].call = "store.search"
         [] OTHER -> TRUE

Running(p) == pc[p] \notin {"idle", "done"}

\* C37: provided every adapter call settles, every method that was invoked
\* returns, and it does so with at most 3 adapter calls on record for create
\* (store create, index upsert, compensating delete), at most 2 for update,
\* exactly 2 for delete, at most 3 for bulkSync (one store bulk upsert and at
\* most two index bulk upserts), at most 2 for resync, and for search one
\* index query followed by either one store get per match of the answer or
\* one store search
C37_BoundedTermination ==
    /\ [](\A p \in Callers : CallsBounded(p))
    /\ \A p \in Callers : []<>(~Running(p))

C37_Witness ==
    \E p \in Callers :
        /\ Done(p, "search")
        /\ Len(log[p]) = 3
        /\ log[p][3].call = "store.get"

====
